---- MODULE Spec2Model ----
(***************************************************************************)
(* Model of src/linkedin_sourcing_agent.py: the LinkedIn sourcing agent.   *)
(* Python str values are TLA+ strings; Python lists are sequences; Python  *)
(* dicts with fixed keys are records; Optional[x] is <<>> or <<x>>.        *)
(* Scores are kept in tenths (9.5 is 95) so that they stay integers.       *)
(***************************************************************************)
EXTENDS Integers, Sequences, FiniteSets, TLC

VARIABLES
    pc,                     \* position in run_pipeline / in the function under study
    job_description_lines,  \* run_pipeline: lines read so far
    empty_line_count,       \* run_pipeline: consecutive blank lines
    job_description,        \* run_pipeline: the joined, stripped description
    queries,                \* search_linkedin: the built queries
    qi,                     \* search_linkedin: number of loop iterations done
    issued,                 \* the queries the provider was asked, in order
    response,               \* search_linkedin: the response being iterated
    search_errors,          \* the queries (by number) whose error was logged
    candidates,             \* search_linkedin: candidates gathered
    seen_urls,              \* search_linkedin: URLs seen in this pass
    scored_candidates,      \* score_candidates' sorted result
    num_messages,           \* run_pipeline: the entry at the count prompt (191-192)
    top_candidates,         \* run_pipeline: scored_candidates[:num_messages]
    messages,               \* generate_outreach's result
    db,                     \* rows of the candidates table
    gemini_client,          \* module-level client: TRUE when configured
    arg,                    \* argument of the function under study
    ret                     \* its result

vars == <<pc, job_description_lines, empty_line_count, job_description, queries,
          qi, issued, response, search_errors, candidates, seen_urls,
          scored_candidates, num_messages, top_candidates, messages, db, gemini_client, arg, ret>>

\* no response in hand / n results of the response in hand were handled
NoResponse == [open |-> FALSE, n |-> 0]

pipelineVars == <<job_description_lines, empty_line_count, job_description,
                  queries, qi, issued, response, search_errors, candidates,
                  seen_urls, scored_candidates, num_messages, top_candidates, messages, db,
                  gemini_client>>

(***************************************************************************)
(* Python str operations.                                                  *)
(***************************************************************************)
LowerChars == {"a","b","c","d","e","f","g","h","i","j","k","l","m",
               "n","o","p","q","r","s","t","u","v","w","x","y","z"}

UpperChars == {"A","B","C","D","E","F","G","H","I","J","K","L","M",
               "N","O","P","Q","R","S","T","U","V","W","X","Y","Z"}

DigitChars == {"0","1","2","3","4","5","6","7","8","9"}

WhiteChars == {" ", "\n", "\t", "\r"}

LowerOf ==
    ("A" :> "a") @@ ("B" :> "b") @@ ("C" :> "c") @@ ("D" :> "d") @@ ("E" :> "e") @@
    ("F" :> "f") @@ ("G" :> "g") @@ ("H" :> "h") @@ ("I" :> "i") @@ ("J" :> "j") @@
    ("K" :> "k") @@ ("L" :> "l") @@ ("M" :> "m") @@ ("N" :> "n") @@ ("O" :> "o") @@
    ("P" :> "p") @@ ("Q" :> "q") @@ ("R" :> "r") @@ ("S" :> "s") @@ ("T" :> "t") @@
    ("U" :> "u") @@ ("V" :> "v") @@ ("W" :> "w") @@ ("X" :> "x") @@ ("Y" :> "y") @@
    ("Z" :> "z")

UpperOf ==
    ("a" :> "A") @@ ("b" :> "B") @@ ("c" :> "C") @@ ("d" :> "D") @@ ("e" :> "E") @@
    ("f" :> "F") @@ ("g" :> "G") @@ ("h" :> "H") @@ ("i" :> "I") @@ ("j" :> "J") @@
    ("k" :> "K") @@ ("l" :> "L") @@ ("m" :> "M") @@ ("n" :> "N") @@ ("o" :> "O") @@
    ("p" :> "P") @@ ("q" :> "Q") @@ ("r" :> "R") @@ ("s" :> "S") @@ ("t" :> "T") @@
    ("u" :> "U") @@ ("v" :> "V") @@ ("w" :> "W") @@ ("x" :> "X") @@ ("y" :> "Y") @@
    ("z" :> "Z")

\* s[i], 1-based
CharAt(s, i) == SubSeq(s, i, i)

\* s[i-1:], 1-based
From(s, i) == SubSeq(s, i, Len(s))

IsAlpha(c) == c \in LowerChars \/ c \in UpperChars

IsDigitChar(c) == c \in DigitChars

LowerChar(c) == IF c \in UpperChars THEN LowerOf[c] ELSE c

UpperChar(c) == IF c \in LowerChars THEN UpperOf[c] ELSE c

\* str.lower()
RECURSIVE Lower(_)
Lower(s) ==
    IF s = "" THEN "" ELSE LowerChar(CharAt(s, 1)) \o Lower(From(s, 2))

\* str.capitalize(): first character upper, the rest lower
Capitalize(s) ==
    IF s = "" THEN "" ELSE UpperChar(CharAt(s, 1)) \o Lower(From(s, 2))

\* str.title(): a letter after a non-letter is upper, a letter after a letter lower
RECURSIVE TitleFrom(_, _)
TitleFrom(s, prevCased) ==
    IF s = "" THEN ""
    ELSE LET c == CharAt(s, 1) IN
         IF IsAlpha(c)
         THEN (IF prevCased THEN LowerChar(c) ELSE UpperChar(c)) \o TitleFrom(From(s, 2), TRUE)
         ELSE c \o TitleFrom(From(s, 2), FALSE)

Title(s) == TitleFrom(s, FALSE)

\* str.islower(): at least one cased character and none of them upper
IsLower(s) ==
    /\ \E i \in 1..Len(s) : CharAt(s, i) \in LowerChars
    /\ \A i \in 1..Len(s) : CharAt(s, i) \notin UpperChars

\* str.isdigit(): non-empty and every character a digit
IsDigit(s) ==
    /\ s # ""
    /\ \A i \in 1..Len(s) : IsDigitChar(CharAt(s, i))

\* the positions where sub starts in s
Occurrences(sub, s) ==
    {i \in 1..(Len(s) - Len(sub) + 1) : SubSeq(s, i, i + Len(sub) - 1) = sub}

\* sub in s
Contains(sub, s) == Occurrences(sub, s) # {}

\* s.find(sub) + 1: the first position of sub in s, 0 when absent
Find(sub, s) ==
    LET occ == Occurrences(sub, s) IN
    IF occ = {} THEN 0 ELSE CHOOSE i \in occ : \A j \in occ : i <= j

\* any(term in s for term in terms)
AnyIn(terms, s) == \E t \in terms : Contains(t, s)

\* s.startswith(p)
StartsWith(s, p) == Len(p) <= Len(s) /\ SubSeq(s, 1, Len(p)) = p

\* s.split(sep), sep non-empty
RECURSIVE Split(_, _)
Split(s, sep) ==
    LET i == Find(sep, s) IN
    IF i = 0 THEN <<s>>
    ELSE <<SubSeq(s, 1, i - 1)>> \o Split(From(s, i + Len(sep)), sep)

\* s.count(c), c one character
RECURSIVE Count(_, _)
Count(s, c) ==
    IF s = "" THEN 0
    ELSE (IF CharAt(s, 1) = c THEN 1 ELSE 0) + Count(From(s, 2), c)

\* s.lstrip(chars) / s.rstrip(chars) / s.strip(chars)
RECURSIVE LStripSet(_, _)
LStripSet(s, chars) ==
    IF s # "" /\ CharAt(s, 1) \in chars THEN LStripSet(From(s, 2), chars) ELSE s

RECURSIVE RStripSet(_, _)
RStripSet(s, chars) ==
    IF s # "" /\ CharAt(s, Len(s)) \in chars
    THEN RStripSet(SubSeq(s, 1, Len(s) - 1), chars) ELSE s

StripSet(s, chars) == RStripSet(LStripSet(s, chars), chars)

\* s.strip()
Strip(s) == StripSet(s, WhiteChars)

\* s[:n]
Take(s, n) == SubSeq(s, 1, IF n < Len(s) THEN n ELSE Len(s))

\* sep.join(parts)
RECURSIVE Join(_, _)
Join(parts, sep) ==
    IF parts = <<>> THEN ""
    ELSE IF Len(parts) = 1 THEN parts[1]
    ELSE parts[1] \o sep \o Join(Tail(parts), sep)

\* s.replace(old, new), old non-empty
RECURSIVE Replace(_, _, _)
Replace(s, old, new) ==
    LET i == Find(old, s) IN
    IF i = 0 THEN s
    ELSE SubSeq(s, 1, i - 1) \o new \o Replace(From(s, i + Len(old)), old, new)

\* [f(x) for x in seq]
MapSeq(seq, f(_)) == [i \in 1..Len(seq) |-> f(seq[i])]

Last(seq) == seq[Len(seq)]

(***************************************************************************)
(* _extract_name_from_url (slug name inference)                            *)
(***************************************************************************)
ProfileMarker == "linkedin.com/in/"

\* the loop of lines 546-553 over the rest of username, clean_name so far
RECURSIVE CleanName(_, _)
CleanName(username, clean_name) ==
    IF username = "" THEN clean_name
    ELSE LET char == CharAt(username, 1) IN
         IF IsAlpha(char) \/ char \in {"-", "_"}
         THEN CleanName(From(username, 2), clean_name \o char)
         ELSE IF IsDigitChar(char) /\ Len(clean_name) > 3
         THEN clean_name
         ELSE CleanName(From(username, 2), clean_name \o char)

\* lines 569-574: a space before an upper letter that follows a lower one, then title()
RECURSIVE CamelSplit(_, _)
CamelSplit(clean_name, i) ==
    IF i > Len(clean_name) THEN ""
    ELSE (IF i > 1 /\ CharAt(clean_name, i) \in UpperChars
                   /\ CharAt(clean_name, i - 1) \in LowerChars
          THEN " " ELSE "")
         \o CharAt(clean_name, i) \o CamelSplit(clean_name, i + 1)

\* [part for part in parts if not part.isdigit()]
RECURSIVE NonDigitParts(_)
NonDigitParts(parts) ==
    IF parts = <<>> THEN <<>>
    ELSE (IF IsDigit(Head(parts)) THEN <<>> ELSE <<Head(parts)>>)
         \o NonDigitParts(Tail(parts))

\* lines 555-574, clean_name non-empty
NameFromClean(clean_name) ==
    IF ~Contains("-", clean_name) /\ ~Contains("_", clean_name)
    THEN Capitalize(clean_name)
    ELSE IF Contains("-", clean_name) /\ ~IsDigitChar(CharAt(clean_name, Len(clean_name)))
    THEN Join(MapSeq(NonDigitParts(Split(clean_name, "-")), Capitalize), " ")
    ELSE IF IsLower(clean_name)
    THEN Capitalize(clean_name)
    ELSE Title(CamelSplit(clean_name, 1))

\* lines 540-543
Username(url) ==
    LET u == Head(Split(StripSet(Last(Split(url, ProfileMarker)), {"/"}), "?")) IN
    IF Count(u, "-") > 2 THEN Head(Split(u, "-")) ELSE u

_extract_name_from_url(url) ==
    IF Contains(ProfileMarker, url)
    THEN LET clean_name == CleanName(Username(url), "") IN
         IF clean_name # "" THEN NameFromClean(clean_name) ELSE "Profile User"
    ELSE "Profile User"

(***************************************************************************)
(* _parse_search_result (ResultParser).  A field of a provider result is a *)
(* JSON value: a string Str(s), or Null (a value that is not a string).    *)
(* A key that is absent reads as Str("") through dict.get(key, "").        *)
(***************************************************************************)
Str(s) == <<"str", s>>

Null == <<"null">>

IsStr(j) == j[1] = "str"

Val(j) == j[2]

\* U+2022, the bullet of lines 505, 508 and 516 (one character, written in ASCII)
Bullet == "^"

Placeholders == {"Unknown", "", "View profile", "LinkedIn"}

\* NameAndHeadline with the " | LinkedIn" pattern tried first
NameAndHeadline_PipeFirst(title) ==
    IF Contains(" | LinkedIn", title)
    THEN <<Strip(Head(Split(title, " | LinkedIn"))), "">>
    ELSE IF Contains(" - ", title) /\ Contains("LinkedIn", title)
    THEN LET parts == Split(title, " - ") IN
         <<Strip(parts[1]),
           IF Len(parts) > 1 THEN Strip(Head(Split(parts[2], "| LinkedIn"))) ELSE "">>
    ELSE IF Contains("LinkedIn", title)
    THEN <<Strip(Replace(Replace(title, "LinkedIn", ""), "|", "")), "">>
    ELSE <<"Unknown", "">>

\* lines 481-497: <<name, headline>> from the title
NameAndHeadline(title) ==
    IF Contains(" - ", title) /\ Contains("LinkedIn", title)
    THEN LET parts == Split(title, " - ") IN
         <<Strip(parts[1]),
           IF Len(parts) > 1 THEN Strip(Head(Split(parts[2], "| LinkedIn"))) ELSE "">>
    ELSE IF Contains(" | LinkedIn", title)
    THEN <<Strip(Head(Split(title, " | LinkedIn"))), "">>
    ELSE IF Contains("LinkedIn", title)
    THEN <<Strip(Replace(Replace(title, "LinkedIn", ""), "|", "")), "">>
    ELSE <<"Unknown", "">>

\* x.split(marker)[1].split(".")[0].split(bullet)[0].strip()
AfterMarker(snippet, marker) ==
    Strip(Head(Split(Head(Split(Split(snippet, marker)[2], ".")), Bullet)))

\* lines 503-509
SnippetLocation(snippet) ==
    IF Contains("Location:", snippet) THEN AfterMarker(snippet, "Location:")
    ELSE IF Contains("Based in", snippet) THEN AfterMarker(snippet, "Based in")
    ELSE ""

\* lines 512-516
SnippetCompany(snippet) ==
    IF Contains(" at ", snippet) THEN Take(AfterMarker(snippet, " at "), 50) ELSE ""

\* Optional[Dict]: <<>> is None (lines 531-533: any exception is logged and None returned)
_parse_search_result(result) ==
    IF ~IsStr(result.title) \/ ~IsStr(result.snippet)
    THEN <<>>
    ELSE LET url == Val(result.link)
             title == Val(result.title)
             snippet == Val(result.snippet)
             nh == NameAndHeadline(title)
             name == IF nh[1] \in Placeholders THEN _extract_name_from_url(url) ELSE nh[1]
             headline == IF nh[2] = "" /\ snippet # ""
                         THEN Take(Head(Split(snippet, ".")), 100) ELSE nh[2]
         IN <<[name |-> name,
               linkedin_url |-> url,
               headline |-> headline,
               location |-> SnippetLocation(snippet),
               company |-> SnippetCompany(snippet),
               summary |-> snippet]>>

(***************************************************************************)
(* _extract_search_terms (TermExtractor), _build_search_queries            *)
(***************************************************************************)
\* [x for x in table if x in text], in table order
RECURSIVE Matches(_, _)
Matches(table, text) ==
    IF table = <<>> THEN <<>>
    ELSE (IF Contains(Head(table), text) THEN <<Head(table)>> ELSE <<>>)
         \o Matches(Tail(table), text)

\* the first entry of table found in text, "" when none is
FirstMatch(table, text) ==
    LET m == Matches(table, text) IN IF m = <<>> THEN "" ELSE m[1]

\* lines 400-415
TermsTitle(text_lower) ==
    IF AnyIn({"machine learning", "ml engineer", "ai engineer"}, text_lower)
    THEN "machine learning engineer"
    ELSE IF AnyIn({"data scientist", "data science"}, text_lower) THEN "data scientist"
    ELSE IF AnyIn({"backend engineer", "backend developer"}, text_lower) THEN "backend engineer"
    ELSE IF AnyIn({"frontend engineer", "frontend developer"}, text_lower) THEN "frontend engineer"
    ELSE IF AnyIn({"full stack", "fullstack"}, text_lower) THEN "full stack engineer"
    ELSE IF AnyIn({"devops", "platform engineer"}, text_lower) THEN "devops engineer"
    ELSE IF AnyIn({"product manager"}, text_lower) THEN "product manager"
    ELSE "software engineer"

\* lines 418-421
TermsSeniority(text_lower) ==
    IF AnyIn({"senior", "sr.", "lead", "principal", "staff"}, text_lower) THEN "senior"
    ELSE IF AnyIn({"junior", "entry", "new grad"}, text_lower) THEN "junior"
    ELSE ""

\* lines 424-429
TermsSkillKeywords ==
    <<"python", "java", "javascript", "typescript", "go", "rust", "c++",
      "react", "node.js", "django", "flask", "spring", "aws", "gcp", "azure",
      "kubernetes", "docker", "tensorflow", "pytorch", "ml", "ai", "nlp",
      "sql", "postgresql", "mongodb", "redis", "elasticsearch">>

\* lines 436-439
TermsLocations ==
    <<"san francisco", "mountain view", "palo alto", "san jose", "berkeley",
      "new york", "seattle", "austin", "boston", "chicago", "remote">>

_extract_search_terms(jd) ==
    LET text_lower == Lower(jd) IN
    [title |-> TermsTitle(text_lower),
     skills |-> Matches(TermsSkillKeywords, text_lower),
     location |-> FirstMatch(TermsLocations, text_lower),
     seniority |-> TermsSeniority(text_lower)]

Quoted(s) == "\"" \o s \o "\""

SitePrefix == "site:linkedin.com/in "

\* line 455
LocationQuery(terms) == SitePrefix \o Quoted(terms.title) \o " " \o Quoted(terms.location)

\* line 459
SeniorityQuery(terms) == SitePrefix \o Quoted(terms.seniority \o " " \o terms.title)

\* lines 463-465
SkillsQuery(terms) ==
    SitePrefix \o Quoted(terms.title) \o " "
        \o Join(MapSeq(SubSeq(terms.skills, 1, IF Len(terms.skills) < 2 THEN Len(terms.skills) ELSE 2),
                       Quoted), " ")

\* line 469
FallbackQuery(terms) == SitePrefix \o Quoted(terms.title)

\* _build_search_queries without the "if not queries" test of line 468
_build_search_queries_AlwaysFallback(terms) ==
       (IF terms.location # "" THEN <<LocationQuery(terms)>> ELSE <<>>)
    \o (IF terms.seniority # "" THEN <<SeniorityQuery(terms)>> ELSE <<>>)
    \o (IF terms.skills # <<>> THEN <<SkillsQuery(terms)>> ELSE <<>>)
    \o <<FallbackQuery(terms)>>

_build_search_queries(terms) ==
    LET built ==
            (IF terms.location # "" THEN <<LocationQuery(terms)>> ELSE <<>>)
         \o (IF terms.seniority # "" THEN <<SeniorityQuery(terms)>> ELSE <<>>)
         \o (IF terms.skills # <<>> THEN <<SkillsQuery(terms)>> ELSE <<>>)
    IN IF built = <<>> THEN <<FallbackQuery(terms)>> ELSE built

(***************************************************************************)
(* ScoringEngine: the six sub-scorers, in tenths of a point.               *)
(***************************************************************************)
\* candidate.get(key, default)
Get(d, key, default) == IF key \in DOMAIN d THEN d[key] ELSE default

ELITE_SCHOOLS ==
    {"mit", "stanford", "harvard", "yale", "princeton", "columbia",
     "berkeley", "caltech", "carnegie mellon", "cornell", "upenn",
     "oxford", "cambridge", "eth zurich", "imperial college", "georgia tech",
     "cmu", "university of california", "uc berkeley", "uc san diego"}

TOP_TECH_COMPANIES ==
    {"google", "facebook", "meta", "amazon", "apple", "microsoft",
     "netflix", "uber", "airbnb", "stripe", "openai", "anthropic",
     "tesla", "spacex", "nvidia", "salesforce", "databricks", "palantir",
     "github", "gitlab", "atlassian", "slack", "zoom", "dropbox"}

_score_education(candidate) ==
    LET text == Lower(Get(candidate, "headline", "") \o " " \o Get(candidate, "summary", "")) IN
    IF AnyIn(ELITE_SCHOOLS, text) THEN 95
    ELSE IF AnyIn({"university", "college", "institute of technology", "phd",
                   "doctorate", "master"}, text)
    THEN IF AnyIn({"phd", "ph.d", "doctorate"}, text) THEN 85
         ELSE IF AnyIn({"master", "mba", "m.s.", "ms"}, text) THEN 75
         ELSE IF AnyIn({"bachelor", "b.s.", "bs", "ba"}, text) THEN 70
         ELSE 70
    ELSE 55

_score_trajectory(candidate) ==
    LET text == Lower(Get(candidate, "headline", "")) \o " " \o Lower(Get(candidate, "summary", "")) IN
    IF AnyIn({"principal", "staff", "lead", "senior", "director", "head", "vp",
              "cto", "chief"}, text) THEN 85
    ELSE IF AnyIn({"mid", "ii", "iii", "intermediate"}, text) THEN 70
    ELSE IF AnyIn({"junior", "entry", "intern", "associate", "new grad"}, text) THEN 40
    ELSE 60

_score_company(candidate) ==
    LET text == Lower(Get(candidate, "company", "")) \o " " \o Lower(Get(candidate, "headline", "")) IN
    IF AnyIn(TOP_TECH_COMPANIES, text) THEN 95
    ELSE IF AnyIn({"tech", "software", "ai", "ml", "fintech", "startup", "saas",
                   "cloud", "data", "analytics", "platform", "engineering"}, text) THEN 75
    ELSE 55

\* lines 657-662
ExperienceSkillKeywords ==
    <<"python", "java", "javascript", "typescript", "go", "rust", "c++",
      "react", "node.js", "django", "flask", "spring", "aws", "gcp", "azure",
      "kubernetes", "docker", "tensorflow", "pytorch", "ml", "ai", "nlp",
      "machine learning", "deep learning", "sql", "postgresql", "mongodb">>

\* lines 674-683: the tier of matches / total_skills, compared without division
ExperienceTier(matches, total_skills) ==
    IF matches * 10 >= 8 * total_skills THEN 95
    ELSE IF matches * 10 >= 5 * total_skills THEN 75
    ELSE IF matches * 10 >= 2 * total_skills THEN 55
    ELSE 40

_score_experience_match(candidate, jd) ==
    LET text == Lower(Get(candidate, "headline", "") \o " " \o Get(candidate, "summary", ""))
        job_skills == Matches(ExperienceSkillKeywords, Lower(jd))
        matches == Len(Matches(job_skills, text))
        total_skills == IF job_skills # <<>> THEN Len(job_skills) ELSE 1
    IN ExperienceTier(matches, total_skills)

\* lines 695-701
MetroAreas ==
    {{"sf", "san francisco", "bay area", "palo alto", "mountain view", "san jose"},
     {"nyc", "new york", "manhattan", "brooklyn"},
     {"seattle", "bellevue", "redmond"},
     {"boston", "cambridge"},
     {"la", "los angeles", "santa monica"}}

_score_location(candidate, job_info) ==
    LET candidate_location == Lower(Get(candidate, "location", ""))
        job_location == Lower(Get(job_info, "location", ""))
    IN IF job_location # "" /\ Contains(job_location, candidate_location) THEN 100
       ELSE IF \E cities \in MetroAreas :
                   AnyIn(cities, job_location) /\ AnyIn(cities, candidate_location) THEN 80
       ELSE IF Contains("remote", candidate_location) \/ Contains("remote", job_location) THEN 60
       ELSE 50

\* line 740: [str(year) for year in range(2020, 2026)]
RecentYears == {"2020", "2021", "2022", "2023", "2024", "2025"}

_score_tenure(candidate) ==
    LET text == Lower(Get(candidate, "summary", "")) \o " " \o Lower(Get(candidate, "headline", ""))
        year_mentions == Cardinality({year \in RecentYears : Contains(year, text)})
    IN IF AnyIn({"2 years", "3 years", "two years", "three years", "2-3 years"}, text) THEN 90
       ELSE IF AnyIn({"1 year", "one year", "1-2 years"}, text) THEN 70
       ELSE IF AnyIn({"6 months", "3 months", "contract", "freelance"}, text) THEN 35
       ELSE IF year_mentions >= 4 THEN 40
       ELSE IF year_mentions >= 2 THEN 75
       ELSE 65

\* lines 757-760
JobInfoLocations ==
    <<"san francisco", "mountain view", "palo alto", "san jose", "berkeley",
      "new york", "seattle", "austin", "boston", "chicago">>

\* lines 768-772: the company is cut from the text as entered, not the lower-cased one
JobInfoCompany(jd) ==
    IF Contains(" at ", Lower(jd))
    THEN LET parts == Split(jd, " at ") IN
         IF Len(parts) > 1 THEN Strip(Head(Split(Head(Split(parts[2], "\n")), ","))) ELSE ""
    ELSE ""

_extract_job_info(jd) ==
    [location |-> FirstMatch(JobInfoLocations, Lower(jd)),
     company |-> JobInfoCompany(jd)]

(***************************************************************************)
(* score_candidates: aggregation, rounding and the sort                    *)
(***************************************************************************)
\* weights with experience at 35%: they sum to 1.10
weights_SumAboveOne ==
    [education |-> 20, trajectory |-> 20, company |-> 15,
     experience |-> 35, location |-> 10, tenure |-> 10]

\* lines 334-341, in hundredths
weights ==
    [education |-> 20, trajectory |-> 20, company |-> 15,
     experience |-> 25, location |-> 10, tenure |-> 10]

ScoreKeys == <<"education", "trajectory", "company", "experience", "location", "tenure">>

\* line 343 in exact arithmetic: sum(breakdown[key] * weights[key]), in thousandths
RECURSIVE WeightedSum(_, _)
WeightedSum(breakdown, keys) ==
    IF keys = <<>> THEN 0
    ELSE breakdown[Head(keys)] * weights[Head(keys)] + WeightedSum(breakdown, Tail(keys))

\* The breakdowns whose exact weighted sum ends in 5 hundredths and whose binary
\* floating-point sum (IEEE-754 doubles, added in the order of ScoreKeys) lies
\* below that half, so that round(fit_score, 1) goes down; the other halves go up.
HalfRoundsDown == {
    <<95,85,95,95,60,35>>, <<95,85,95,95,50,35>>, <<95,85,95,75,100,35>>, <<95,85,95,75,80,75>>, <<95,85,95,75,80,65>>, <<95,85,95,75,60,35>>,
    <<95,85,95,75,60,75>>, <<95,85,95,55,80,35>>, <<95,85,95,55,60,35>>, <<95,85,95,55,50,35>>, <<95,85,75,95,80,35>>, <<95,85,75,95,50,65>>,
    <<95,85,75,75,100,65>>, <<95,85,75,55,80,35>>, <<95,85,55,95,80,65>>, <<95,85,55,75,60,35>>, <<95,70,95,95,80,35>>, <<95,70,95,95,50,65>>,
    <<95,70,95,75,100,65>>, <<95,70,95,55,80,35>>, <<95,70,75,95,80,65>>, <<95,70,75,75,60,35>>, <<95,70,55,95,100,35>>, <<95,70,55,95,100,75>>,
    <<95,70,55,95,80,35>>, <<95,70,55,95,60,35>>, <<95,70,55,95,60,75>>, <<95,70,55,95,50,35>>, <<95,70,55,75,100,35>>, <<95,70,55,75,80,35>>,
    <<95,70,55,75,80,75>>, <<95,70,55,75,60,35>>, <<95,70,55,75,60,75>>, <<95,70,55,75,60,65>>, <<95,70,55,75,50,35>>, <<95,70,55,75,50,75>>,
    <<95,70,55,55,100,35>>, <<95,70,55,55,100,75>>, <<95,70,55,55,80,35>>, <<95,70,55,55,80,75>>, <<95,70,55,55,60,35>>, <<95,70,55,55,60,75>>,
    <<95,70,55,55,50,35>>, <<95,40,95,95,100,35>>, <<95,40,95,95,100,75>>, <<95,40,95,95,80,35>>, <<95,40,95,95,60,35>>, <<95,40,95,95,60,75>>,
    <<95,40,95,95,50,35>>, <<95,40,95,75,100,35>>, <<95,40,95,75,80,35>>, <<95,40,95,75,80,75>>, <<95,40,95,75,60,35>>, <<95,40,95,75,60,75>>,
    <<95,40,95,75,60,65>>, <<95,40,95,75,50,35>>, <<95,40,95,75,50,75>>, <<95,40,95,55,100,35>>, <<95,40,95,55,100,75>>, <<95,40,95,55,80,35>>,
    <<95,40,95,55,80,75>>, <<95,40,95,55,60,35>>, <<95,40,95,55,60,75>>, <<95,40,95,55,50,35>>, <<95,40,75,95,100,35>>, <<95,40,75,95,80,35>>,
    <<95,40,75,95,50,35>>, <<95,40,75,75,100,35>>, <<95,40,75,75,80,35>>, <<95,40,75,75,80,75>>, <<95,40,75,75,50,35>>, <<95,40,75,55,100,35>>,
    <<95,40,75,55,80,35>>, <<95,40,75,55,50,35>>, <<95,40,55,95,100,35>>, <<95,40,55,95,80,35>>, <<95,40,55,95,60,35>>, <<95,40,55,95,60,75>>,
    <<95,40,55,75,80,35>>, <<95,40,55,75,60,35>>, <<95,40,55,75,50,35>>, <<95,40,55,55,100,35>>, <<95,40,55,55,80,35>>, <<95,40,55,55,60,35>>,
    <<95,40,55,55,60,75>>, <<95,60,95,95,100,35>>, <<95,60,95,95,80,75>>, <<95,60,95,95,80,65>>, <<95,60,95,95,60,35>>, <<95,60,95,95,60,75>>,
    <<95,60,95,75,80,35>>, <<95,60,95,75,60,35>>, <<95,60,95,75,50,35>>, <<95,60,95,55,100,35>>, <<95,60,95,55,80,35>>, <<95,60,95,55,60,35>>,
    <<95,60,95,55,60,75>>, <<95,60,75,95,100,65>>, <<95,60,75,75,80,35>>, <<95,60,55,95,60,35>>, <<95,60,55,55,60,35>>, <<85,85,95,95,100,35>>,
    <<85,85,95,95,100,75>>, <<85,85,95,95,100,65>>, <<85,85,95,95,80,35>>, <<85,85,95,95,50,75>>, <<85,85,95,95,50,65>>, <<85,85,95,75,100,75>>,
    <<85,85,95,75,100,65>>, <<85,85,95,75,80,35>>, <<85,85,95,75,80,75>>, <<85,85,95,75,50,35>>, <<85,85,95,55,100,35>>, <<85,85,95,55,80,35>>,
    <<85,85,95,55,50,35>>, <<85,85,75,95,100,35>>, <<85,85,75,95,80,75>>, <<85,85,75,95,80,65>>, <<85,85,75,95,60,35>>, <<85,85,75,95,60,75>>,
    <<85,85,75,75,80,35>>, <<85,85,75,75,60,35>>, <<85,85,75,75,50,35>>, <<85,85,75,55,100,35>>, <<85,85,75,55,80,35>>, <<85,85,75,55,60,35>>,
    <<85,85,75,55,60,75>>, <<85,85,55,95,100,65>>, <<85,85,55,75,80,35>>, <<85,70,95,95,100,35>>, <<85,70,95,95,80,75>>, <<85,70,95,95,80,65>>,
    <<85,70,95,95,60,35>>, <<85,70,95,95,60,75>>, <<85,70,95,75,80,35>>, <<85,70,95,75,60,35>>, <<85,70,95,75,50,35>>, <<85,70,95,55,100,35>>,
    <<85,70,95,55,80,35>>, <<85,70,95,55,60,35>>, <<85,70,95,55,60,75>>, <<85,70,75,95,100,65>>, <<85,70,75,75,80,35>>, <<85,70,55,95,60,35>>,
    <<85,70,55,55,60,35>>, <<85,40,95,95,100,35>>, <<85,40,95,95,80,35>>, <<85,40,95,95,80,75>>, <<85,40,95,95,60,35>>, <<85,40,95,95,50,35>>,
    <<85,40,95,95,50,75>>, <<85,40,95,75,100,35>>, <<85,40,95,75,100,75>>, <<85,40,95,75,80,35>>, <<85,40,95,75,80,75>>, <<85,40,95,75,80,65>>,
    <<85,40,95,75,50,35>>, <<85,40,95,75,50,75>>, <<85,40,95,55,100,35>>, <<85,40,95,55,100,75>>, <<85,40,95,55,80,35>>, <<85,40,95,55,80,75>>,
    <<85,40,95,55,60,35>>, <<85,40,95,55,50,35>>, <<85,40,95,55,50,75>>, <<85,40,75,95,100,35>>, <<85,40,75,95,80,35>>, <<85,40,75,95,80,75>>,
    <<85,40,75,95,60,35>>, <<85,40,75,95,60,75>>, <<85,40,75,95,60,65>>, <<85,40,75,95,50,35>>, <<85,40,75,95,50,75>>, <<85,40,75,75,100,35>>,
    <<85,40,75,75,100,75>>, <<85,40,75,75,80,35>>, <<85,40,75,75,80,75>>, <<85,40,75,75,60,35>>, <<85,40,75,75,60,75>>, <<85,40,75,75,50,35>>,
    <<85,40,75,55,100,35>>, <<85,40,75,55,80,35>>, <<85,40,75,55,80,75>>, <<85,40,75,55,60,35>>, <<85,40,75,55,60,75>>, <<85,40,75,55,60,65>>,
    <<85,40,75,55,50,35>>, <<85,40,75,55,50,75>>, <<85,40,55,95,100,35>>, <<85,40,55,95,80,35>>, <<85,40,55,95,80,75>>, <<85,40,55,95,50,35>>,
    <<85,40,55,75,100,35>>, <<85,40,55,75,80,35>>, <<85,40,55,75,50,35>>, <<85,40,55,55,100,35>>, <<85,40,55,55,80,35>>, <<85,40,55,55,80,75>>,
    <<85,40,55,55,50,35>>, <<85,60,95,95,100,75>>, <<85,60,95,95,100,65>>, <<85,60,95,95,80,35>>, <<85,60,95,95,80,75>>, <<85,60,95,95,50,35>>,
    <<85,60,95,75,100,35>>, <<85,60,95,75,80,35>>, <<85,60,95,75,50,35>>, <<85,60,95,55,100,35>>, <<85,60,95,55,80,35>>, <<85,60,95,55,80,75>>,
    <<85,60,95,55,50,35>>, <<85,60,75,95,80,35>>, <<85,60,75,95,60,35>>, <<85,60,75,95,50,35>>, <<85,60,75,75,100,35>>, <<85,60,75,75,80,35>>,
    <<85,60,75,75,60,35>>, <<85,60,75,75,60,75>>, <<85,60,75,55,80,35>>, <<85,60,75,55,60,35>>, <<85,60,75,55,50,35>>, <<85,60,55,95,80,35>>,
    <<85,60,55,55,80,35>>, <<75,85,95,95,100,35>>, <<75,85,95,95,80,65>>, <<75,85,95,95,60,35>>, <<75,85,95,95,60,75>>, <<75,85,95,95,60,65>>,
    <<75,85,95,95,50,35>>, <<75,85,95,95,50,75>>, <<75,85,95,75,100,35>>, <<75,85,95,75,100,75>>, <<75,85,95,75,80,35>>, <<75,85,95,75,60,35>>,
    <<75,85,95,75,60,75>>, <<75,85,95,75,50,35>>, <<75,85,95,55,100,35>>, <<75,85,95,55,80,35>>, <<75,85,95,55,80,75>>, <<75,85,95,55,60,35>>,
    <<75,85,95,55,60,75>>, <<75,85,95,55,60,65>>, <<75,85,95,55,50,35>>, <<75,85,95,55,50,75>>, <<75,85,75,95,100,75>>, <<75,85,75,95,100,65>>,
    <<75,85,75,95,80,35>>, <<75,85,75,95,80,75>>, <<75,85,75,95,50,35>>, <<75,85,75,75,100,35>>, <<75,85,75,75,80,35>>, <<75,85,75,75,50,35>>,
    <<75,85,75,55,100,35>>, <<75,85,75,55,80,35>>, <<75,85,75,55,80,75>>, <<75,85,75,55,50,35>>, <<75,85,55,95,80,35>>, <<75,85,55,95,60,35>>,
    <<75,85,55,95,50,35>>, <<75,85,55,75,100,35>>, <<75,85,55,75,80,35>>, <<75,85,55,75,60,35>>, <<75,85,55,75,60,75>>, <<75,85,55,55,80,35>>,
    <<75,85,55,55,60,35>>, <<75,85,55,55,50,35>>, <<75,70,95,95,100,75>>, <<75,70,95,95,100,65>>, <<75,70,95,95,80,35>>, <<75,70,95,95,80,75>>,
    <<75,70,95,95,50,35>>, <<75,70,95,75,100,35>>, <<75,70,95,75,80,35>>, <<75,70,95,75,50,35>>, <<75,70,95,55,100,35>>, <<75,70,95,55,80,35>>,
    <<75,70,95,55,80,75>>, <<75,70,95,55,50,35>>, <<75,70,75,95,80,35>>, <<75,70,75,95,60,35>>, <<75,70,75,95,50,35>>, <<75,70,75,75,100,35>>,
    <<75,70,75,75,80,35>>, <<75,70,75,75,60,35>>, <<75,70,75,75,60,75>>, <<75,70,75,55,80,35>>, <<75,70,75,55,60,35>>, <<75,70,75,55,50,35>>,
    <<75,70,55,95,80,35>>, <<75,70,55,55,80,35>>, <<75,40,95,95,100,35>>, <<75,40,95,95,100,75>>, <<75,40,95,95,80,35>>, <<75,40,95,95,80,75>>,
    <<75,40,95,95,80,65>>, <<75,40,95,95,60,35>>, <<75,40,95,95,60,75>>, <<75,40,95,95,60,65>>, <<75,40,95,95,50,35>>, <<75,40,95,95,50,75>>,
    <<75,40,95,95,50,65>>, <<75,40,95,75,100,35>>, <<75,40,95,75,100,75>>, <<75,40,95,75,100,65>>, <<75,40,95,75,80,35>>, <<75,40,95,75,80,75>>,
    <<75,40,95,75,80,65>>, <<75,40,95,75,60,35>>, <<75,40,95,75,60,75>>, <<75,40,95,75,60,65>>, <<75,40,95,75,50,35>>, <<75,40,95,75,50,75>>,
    <<75,40,95,55,100,35>>, <<75,40,95,55,100,75>>, <<75,40,95,55,80,35>>, <<75,40,95,55,80,75>>, <<75,40,95,55,80,65>>, <<75,40,95,55,60,35>>,
    <<75,40,95,55,60,75>>, <<75,40,95,55,60,65>>, <<75,40,95,55,50,35>>, <<75,40,95,55,50,75>>, <<75,40,95,55,50,65>>, <<75,40,75,95,100,35>>,
    <<75,40,75,95,100,75>>, <<75,40,75,95,80,35>>, <<75,40,75,95,80,75>>, <<75,40,75,95,80,65>>, <<75,40,75,95,50,35>>, <<75,40,75,95,50,75>>,
    <<75,40,75,75,100,35>>, <<75,40,75,75,100,75>>, <<75,40,75,75,80,35>>, <<75,40,75,75,80,75>>, <<75,40,75,75,60,35>>, <<75,40,75,75,50,35>>,
    <<75,40,75,75,50,75>>, <<75,40,75,55,100,35>>, <<75,40,75,55,100,75>>, <<75,40,75,55,80,35>>, <<75,40,75,55,80,75>>, <<75,40,75,55,80,65>>,
    <<75,40,75,55,50,35>>, <<75,40,75,55,50,75>>, <<75,40,55,95,100,35>>, <<75,40,55,95,100,75>>, <<75,40,55,95,80,35>>, <<75,40,55,95,80,75>>,
    <<75,40,55,95,60,35>>, <<75,40,55,95,60,75>>, <<75,40,55,95,50,35>>, <<75,40,55,75,100,35>>, <<75,40,55,75,80,35>>, <<75,40,55,75,80,75>>,
    <<75,40,55,75,60,35>>, <<75,40,55,75,60,75>>, <<75,40,55,75,60,65>>, <<75,40,55,75,50,35>>, <<75,40,55,75,50,75>>, <<75,40,55,55,100,35>>,
    <<75,40,55,55,100,75>>, <<75,40,55,55,80,35>>, <<75,40,55,55,80,75>>, <<75,40,55,55,60,35>>, <<75,40,55,55,60,75>>, <<75,40,55,55,50,35>>,
    <<75,60,95,95,100,35>>, <<75,60,95,95,100,75>>, <<75,60,95,95,80,35>>, <<75,60,95,95,60,35>>, <<75,60,95,95,60,75>>, <<75,60,95,95,50,35>>,
    <<75,60,95,75,100,35>>, <<75,60,95,75,80,35>>, <<75,60,95,75,80,75>>, <<75,60,95,75,60,35>>, <<75,60,95,75,60,75>>, <<75,60,95,75,60,65>>,
    <<75,60,95,75,50,35>>, <<75,60,95,75,50,75>>, <<75,60,95,55,100,35>>, <<75,60,95,55,100,75>>, <<75,60,95,55,80,35>>, <<75,60,95,55,80,75>>,
    <<75,60,95,55,60,35>>, <<75,60,95,55,60,75>>, <<75,60,95,55,50,35>>, <<75,60,75,95,100,35>>, <<75,60,75,95,80,35>>, <<75,60,75,95,50,35>>,
    <<75,60,75,75,100,35>>, <<75,60,75,75,80,35>>, <<75,60,75,75,80,75>>, <<75,60,75,75,50,35>>, <<75,60,75,55,100,35>>, <<75,60,75,55,80,35>>,
    <<75,60,75,55,50,35>>, <<75,60,55,95,100,35>>, <<75,60,55,95,80,35>>, <<75,60,55,95,60,35>>, <<75,60,55,95,60,75>>, <<75,60,55,75,80,35>>,
    <<75,60,55,75,60,35>>, <<75,60,55,75,50,35>>, <<75,60,55,55,100,35>>, <<75,60,55,55,80,35>>, <<75,60,55,55,60,35>>, <<75,60,55,55,60,75>>,
    <<70,85,95,95,100,35>>, <<70,85,95,95,80,75>>, <<70,85,95,95,80,65>>, <<70,85,95,95,60,35>>, <<70,85,95,95,60,75>>, <<70,85,95,75,80,35>>,
    <<70,85,95,75,60,35>>, <<70,85,95,75,50,35>>, <<70,85,95,55,100,35>>, <<70,85,95,55,80,35>>, <<70,85,95,55,60,35>>, <<70,85,95,55,60,75>>,
    <<70,85,75,95,100,65>>, <<70,85,75,75,80,35>>, <<70,85,55,95,60,35>>, <<70,85,55,55,60,35>>, <<70,70,95,95,100,65>>, <<70,70,95,75,80,35>>,
    <<70,70,75,95,60,35>>, <<70,70,75,55,60,35>>, <<70,70,55,95,100,35>>, <<70,70,55,95,80,35>>, <<70,70,55,95,80,75>>, <<70,70,55,95,60,35>>,
    <<70,70,55,95,60,75>>, <<70,70,55,95,60,65>>, <<70,70,55,95,50,35>>, <<70,70,55,95,50,75>>, <<70,70,55,75,100,35>>, <<70,70,55,75,100,75>>,
    <<70,70,55,75,80,35>>, <<70,70,55,75,80,75>>, <<70,70,55,75,60,35>>, <<70,70,55,75,60,75>>, <<70,70,55,75,50,35>>, <<70,70,55,55,100,35>>,
    <<70,70,55,55,80,35>>, <<70,70,55,55,80,75>>, <<70,70,55,55,60,35>>, <<70,70,55,55,60,75>>, <<70,70,55,55,60,65>>, <<70,70,55,55,50,35>>,
    <<70,70,55,55,50,75>>, <<70,40,95,95,100,35>>, <<70,40,95,95,80,35>>, <<70,40,95,95,80,75>>, <<70,40,95,95,60,35>>, <<70,40,95,95,60,75>>,
    <<70,40,95,95,60,65>>, <<70,40,95,95,50,35>>, <<70,40,95,95,50,75>>, <<70,40,95,75,100,35>>, <<70,40,95,75,100,75>>, <<70,40,95,75,80,35>>,
    <<70,40,95,75,80,75>>, <<70,40,95,75,60,35>>, <<70,40,95,75,60,75>>, <<70,40,95,75,50,35>>, <<70,40,95,55,100,35>>, <<70,40,95,55,80,35>>,
    <<70,40,95,55,80,75>>, <<70,40,95,55,60,35>>, <<70,40,95,55,60,75>>, <<70,40,95,55,60,65>>, <<70,40,95,55,50,35>>, <<70,40,95,55,50,75>>,
    <<70,40,75,95,100,35>>, <<70,40,75,95,80,35>>, <<70,40,75,95,80,75>>, <<70,40,75,95,50,35>>, <<70,40,75,75,100,35>>, <<70,40,75,75,80,35>>,
    <<70,40,75,75,50,35>>, <<70,40,75,55,100,35>>, <<70,40,75,55,80,35>>, <<70,40,75,55,80,75>>, <<70,40,75,55,50,35>>, <<70,40,55,95,80,35>>,
    <<70,40,55,95,60,35>>, <<70,40,55,95,50,35>>, <<70,40,55,75,100,35>>, <<70,40,55,75,80,35>>, <<70,40,55,75,60,35>>, <<70,40,55,75,60,75>>,
    <<70,40,55,55,80,35>>, <<70,40,55,55,60,35>>, <<70,40,55,55,50,35>>, <<70,60,95,95,80,35>>, <<70,60,95,95,60,35>>, <<70,60,95,95,50,35>>,
    <<70,60,95,75,100,35>>, <<70,60,95,75,80,35>>, <<70,60,95,75,60,35>>, <<70,60,95,75,60,75>>, <<70,60,95,55,80,35>>, <<70,60,95,55,60,35>>,
    <<70,60,95,55,50,35>>, <<70,60,75,95,80,35>>, <<70,60,75,55,80,35>>, <<70,60,55,75,60,35>>, <<55,85,95,95,100,65>>, <<55,85,95,75,80,35>>,
    <<55,85,75,95,60,35>>, <<55,85,75,55,60,35>>, <<55,85,55,95,100,35>>, <<55,85,55,95,80,35>>, <<55,85,55,95,80,75>>, <<55,85,55,95,60,35>>,
    <<55,85,55,95,60,75>>, <<55,85,55,95,60,65>>, <<55,85,55,95,50,35>>, <<55,85,55,95,50,75>>, <<55,85,55,75,100,35>>, <<55,85,55,75,100,75>>,
    <<55,85,55,75,80,35>>, <<55,85,55,75,80,75>>, <<55,85,55,75,60,35>>, <<55,85,55,75,60,75>>, <<55,85,55,75,50,35>>, <<55,85,55,55,100,35>>,
    <<55,85,55,55,80,35>>, <<55,85,55,55,80,75>>, <<55,85,55,55,60,35>>, <<55,85,55,55,60,75>>, <<55,85,55,55,60,65>>, <<55,85,55,55,50,35>>,
    <<55,85,55,55,50,75>>, <<55,70,95,95,100,35>>, <<55,70,95,95,80,35>>, <<55,70,95,95,80,75>>, <<55,70,95,95,60,35>>, <<55,70,95,95,50,35>>,
    <<55,70,95,95,50,75>>, <<55,70,95,75,100,35>>, <<55,70,95,75,100,75>>, <<55,70,95,75,80,35>>, <<55,70,95,75,80,75>>, <<55,70,95,75,80,65>>,
    <<55,70,95,75,50,35>>, <<55,70,95,75,50,75>>, <<55,70,95,55,100,35>>, <<55,70,95,55,100,75>>, <<55,70,95,55,80,35>>, <<55,70,95,55,80,75>>,
    <<55,70,95,55,60,35>>, <<55,70,95,55,50,35>>, <<55,70,95,55,50,75>>, <<55,70,75,95,100,35>>, <<55,70,75,95,80,35>>, <<55,70,75,95,80,75>>,
    <<55,70,75,95,60,35>>, <<55,70,75,95,60,75>>, <<55,70,75,95,60,65>>, <<55,70,75,95,50,35>>, <<55,70,75,95,50,75>>, <<55,70,75,75,100,35>>,
    <<55,70,75,75,100,75>>, <<55,70,75,75,80,35>>, <<55,70,75,75,80,75>>, <<55,70,75,75,60,35>>, <<55,70,75,75,60,75>>, <<55,70,75,75,50,35>>,
    <<55,70,75,55,100,35>>, <<55,70,75,55,80,35>>, <<55,70,75,55,80,75>>, <<55,70,75,55,60,35>>, <<55,70,75,55,60,75>>, <<55,70,75,55,60,65>>,
    <<55,70,75,55,50,35>>, <<55,70,75,55,50,75>>, <<55,70,55,95,100,35>>, <<55,70,55,95,80,35>>, <<55,70,55,95,80,75>>, <<55,70,55,95,50,35>>,
    <<55,70,55,75,100,35>>, <<55,70,55,75,80,35>>, <<55,70,55,75,50,35>>, <<55,70,55,55,100,35>>, <<55,70,55,55,80,35>>, <<55,70,55,55,80,75>>,
    <<55,70,55,55,50,35>>, <<55,40,95,95,100,35>>, <<55,40,95,95,80,35>>, <<55,40,95,95,80,75>>, <<55,40,95,95,50,35>>, <<55,40,95,75,100,35>>,
    <<55,40,95,75,80,35>>, <<55,40,95,75,50,35>>, <<55,40,95,55,100,35>>, <<55,40,95,55,80,35>>, <<55,40,95,55,80,75>>, <<55,40,95,55,50,35>>,
    <<55,40,75,95,80,35>>, <<55,40,75,95,60,35>>, <<55,40,75,95,50,35>>, <<55,40,75,75,100,35>>, <<55,40,75,75,80,35>>, <<55,40,75,75,60,35>>,
    <<55,40,75,75,60,75>>, <<55,40,75,55,80,35>>, <<55,40,75,55,60,35>>, <<55,40,75,55,50,35>>, <<55,40,55,95,100,35>>, <<55,40,55,95,100,75>>,
    <<55,40,55,95,80,35>>, <<55,40,55,95,80,75>>, <<55,40,55,95,80,65>>, <<55,40,55,95,60,35>>, <<55,40,55,95,60,75>>, <<55,40,55,95,60,65>>,
    <<55,40,55,95,50,35>>, <<55,40,55,95,50,75>>, <<55,40,55,95,50,65>>, <<55,40,55,75,100,35>>, <<55,40,55,75,100,75>>, <<55,40,55,75,100,65>>,
    <<55,40,55,75,80,35>>, <<55,40,55,75,80,75>>, <<55,40,55,75,80,65>>, <<55,40,55,75,60,35>>, <<55,40,55,75,60,75>>, <<55,40,55,75,60,65>>,
    <<55,40,55,75,50,35>>, <<55,40,55,75,50,75>>, <<55,40,55,55,100,35>>, <<55,40,55,55,100,75>>, <<55,40,55,55,80,35>>, <<55,40,55,55,80,75>>,
    <<55,40,55,55,80,65>>, <<55,40,55,55,60,35>>, <<55,40,55,55,60,75>>, <<55,40,55,55,60,65>>, <<55,40,55,55,50,35>>, <<55,40,55,55,50,75>>,
    <<55,40,55,55,50,65>>, <<55,60,95,95,80,35>>, <<55,60,95,55,80,35>>, <<55,60,75,75,60,35>>, <<55,60,55,95,100,35>>, <<55,60,55,95,100,75>>,
    <<55,60,55,95,80,35>>, <<55,60,55,95,80,75>>, <<55,60,55,95,60,35>>, <<55,60,55,95,60,75>>, <<55,60,55,95,50,35>>, <<55,60,55,75,100,35>>,
    <<55,60,55,75,80,35>>, <<55,60,55,75,80,75>>, <<55,60,55,75,60,35>>, <<55,60,55,75,60,75>>, <<55,60,55,75,60,65>>, <<55,60,55,75,50,35>>,
    <<55,60,55,75,50,75>>, <<55,60,55,55,100,35>>, <<55,60,55,55,100,75>>, <<55,60,55,55,80,35>>, <<55,60,55,55,80,75>>, <<55,60,55,55,60,35>>,
    <<55,60,55,55,60,75>>, <<55,60,55,55,50,35>>}

\* line 348: round(fit_score, 1) of the double that line 343 computes, in tenths
RoundedFit(breakdown) ==
    LET exact == WeightedSum(breakdown, ScoreKeys)
        asTuple == <<breakdown.education, breakdown.trajectory, breakdown.company,
                     breakdown.experience, breakdown.location, breakdown.tenure>>
    IN IF exact % 100 = 50
       THEN (IF asTuple \in HalfRoundsDown THEN exact \div 100 ELSE exact \div 100 + 1)
       ELSE (exact + 50) \div 100

\* lines 316-331
Breakdown(candidate, jd, job_info) ==
    [education |-> _score_education(candidate),
     trajectory |-> _score_trajectory(candidate),
     company |-> _score_company(candidate),
     experience |-> _score_experience_match(candidate, jd),
     location |-> _score_location(candidate, job_info),
     tenure |-> _score_tenure(candidate)]

\* lines 345-350
ScoreOne(candidate, jd, job_info) ==
    LET breakdown == Breakdown(candidate, jd, job_info) IN
    [name |-> candidate.name,
     linkedin_url |-> candidate.linkedin_url,
     score |-> RoundedFit(breakdown),
     breakdown |-> breakdown]

\* InsertDesc putting x before the elements that tie with it
RECURSIVE InsertDesc_TiesFirst(_, _)
InsertDesc_TiesFirst(sorted, x) ==
    IF sorted = <<>> THEN <<x>>
    ELSE IF Head(sorted).score > x.score
    THEN <<Head(sorted)>> \o InsertDesc_TiesFirst(Tail(sorted), x)
    ELSE <<x>> \o sorted

\* list.sort(key=score, reverse=True) keeps equal keys in their order: x goes
\* after every element whose score is at least its own
RECURSIVE InsertDesc(_, _)
InsertDesc(sorted, x) ==
    IF sorted = <<>> THEN <<x>>
    ELSE IF Head(sorted).score >= x.score
    THEN <<Head(sorted)>> \o InsertDesc(Tail(sorted), x)
    ELSE <<x>> \o sorted

RECURSIVE SortDesc(_, _)
SortDesc(done, todo) ==
    IF todo = <<>> THEN done ELSE SortDesc(InsertDesc(done, Head(todo)), Tail(todo))

\* score_candidates reading, for each candidate but the first, the job text
\* with the summary of the candidate scored before it
score_candidates_CarryOver(cands, jd) ==
    LET job_info == _extract_job_info(jd)
        seen == [i \in 1..Len(cands) |->
                    IF i = 1 THEN jd ELSE jd \o " " \o cands[i - 1].summary]
        scored == [i \in 1..Len(cands) |-> ScoreOne(cands[i], seen[i], job_info)]
    IN SortDesc(<<>>, scored)

score_candidates(cands, jd) ==
    LET job_info == _extract_job_info(jd)
        scored == [i \in 1..Len(cands) |-> ScoreOne(cands[i], jd, job_info)]
    IN SortDesc(<<>>, scored)

(***************************************************************************)
(* generate_outreach and the two message generators                        *)
(***************************************************************************)
\* lines 833-843 and 785-796: <<company, role>> from the first three lines
RECURSIVE CompanyAndRole(_, _)
CompanyAndRole(job_lines, default_role) ==
    IF job_lines = <<>> THEN <<"our company", default_role>>
    ELSE IF Contains(" at ", Head(job_lines))
    THEN LET parts == Split(Head(job_lines), " at ") IN <<Strip(parts[2]), Strip(parts[1])>>
    ELSE CompanyAndRole(Tail(job_lines), default_role)

FirstThree(seq) == SubSeq(seq, 1, IF Len(seq) < 3 THEN Len(seq) ELSE 3)

\* lines 782 and 829
GreetingName(candidate) ==
    IF candidate.name \notin {"Unknown", "Profile User"} THEN candidate.name ELSE "there"

_generate_template_message(candidate, jd) ==
    LET name == GreetingName(candidate)
        headline == Get(candidate, "headline", "software engineer")
        cr == CompanyAndRole(FirstThree(Split(jd, "\n")), "an exciting opportunity")
    IN "Hi " \o name \o ",\n\nI noticed your background as a " \o headline
       \o " and was impressed by your experience at "
       \o Get(candidate, "company", "your current company")
       \o ".\n\nWe're looking for someone for a " \o cr[2] \o " position at " \o cr[1]
       \o ". Given your background and skills, I think you'd be a great fit for this opportunity."
       \o "\n\nWould you be open to a brief chat about this role?\n\nBest regards"

\* What generate_content does: it raises, or returns a response whose text is a
\* JSON value.
LLMRaises == <<"raise">>

LLMReturns(text) == <<"return", text>>

\* _generate_ai_message with an except clause that returns no text
_generate_ai_message_EmptyOnFailure(candidate, jd, llm) ==
    IF llm = LLMRaises \/ ~IsStr(llm[2])
    THEN ""
    ELSE Replace(Replace(Replace(Strip(Val(llm[2])),
                                 "[Candidate Name]", GreetingName(candidate)),
                         "[Your Name]", ""),
                 "[Your Title]", "")

\* lines 781-825: any exception (the call raising, response.text not a string)
\* ends in the template message
_generate_ai_message(candidate, jd, llm) ==
    IF llm = LLMRaises \/ ~IsStr(llm[2])
    THEN _generate_template_message(candidate, jd)
    ELSE Replace(Replace(Replace(Strip(Val(llm[2])),
                                 "[Candidate Name]", GreetingName(candidate)),
                         "[Your Name]", ""),
                 "[Your Title]", "")

\* lines 369-382 for one candidate; llm is read only when the client is configured
OutreachMessage(candidate, jd, client, llm) ==
    [candidate |-> candidate.name,
     message |-> IF client THEN _generate_ai_message(candidate, jd, llm)
                 ELSE _generate_template_message(candidate, jd)]

\* llms[i] is what the generator does at the i-th call
generate_outreach(scored, jd, client, llms) ==
    [i \in 1..Len(scored) |-> OutreachMessage(scored[i], jd, client, llms[i])]

(***************************************************************************)
(* save_results: INSERT OR REPLACE on the UNIQUE linkedin_url              *)
(***************************************************************************)
\* the table without the rows that conflict with url
RECURSIVE WithoutUrl(_, _)
WithoutUrl(rows, url) ==
    IF rows = <<>> THEN <<>>
    ELSE (IF Head(rows).linkedin_url = url THEN <<>> ELSE <<Head(rows)>>)
         \o WithoutUrl(Tail(rows), url)

InsertOrReplace(rows, row) == Append(WithoutUrl(rows, row.linkedin_url), row)

RECURSIVE SaveFrom(_, _, _, _, _)
SaveFrom(rows, job_id, cands, msgs, i) ==
    IF i > Len(cands) THEN rows
    ELSE SaveFrom(InsertOrReplace(rows,
                      [job_id |-> job_id,
                       name |-> cands[i].name,
                       linkedin_url |-> cands[i].linkedin_url,
                       fit_score |-> cands[i].score,
                       score_breakdown |-> cands[i].breakdown,
                       outreach_message |-> IF i <= Len(msgs) THEN msgs[i].message ELSE ""]),
                  job_id, cands, msgs, i + 1)

save_results(rows, job_id, cands, msgs) == SaveFrom(rows, job_id, cands, msgs, 1)

(***************************************************************************)
(* Inputs.                                                                 *)
(***************************************************************************)
MaxSlugLen == 5

SlugAlphabet == {"a", "L", "-", "_", "4"}

\* every string over SlugAlphabet of length at most n
RECURSIVE SlugsUpTo(_)
SlugsUpTo(n) ==
    IF n = 0 THEN {""}
    ELSE LET shorter == SlugsUpTo(n - 1) IN
         shorter \cup {s \o c : s \in shorter, c \in SlugAlphabet}

ProfilePrefix == "https://www.linkedin.com/in/"

NamedSlugs ==
    {"john-smith-42", "alexlevin", "alexLevin", "alex_Levin", "al-bo-7",
     "john-smith", "mary-ann-lee-8a1b2c", "jo4n", "jane-doe/", "jane-doe?trk=public"}

NameUrls ==
    {ProfilePrefix \o slug : slug \in SlugsUpTo(MaxSlugLen) \cup NamedSlugs}
    \cup {"https://example.com/in/john-smith-42", ""}

\* the title of the worked example
ExampleTitle == "Jane Doe - Senior Engineer | LinkedIn"

\* the values dict.get leaves in a parsed result: link, title and snippet
TitleNames ==
    {"Jane Doe", " Jane", "Jane Doe ", "", "  ", "Unknown", " Unknown",
     "View profile", "LinkedIn", "Profile User"}

TitleTails ==
    {" - Senior Engineer | LinkedIn", " | LinkedIn", " - Engineer", " LinkedIn", "",
     " - CTO - Acme | LinkedIn", " - LinkedIn"}

ParseSnippets ==
    {Str(""), Str("Engineer at Google. Location: Boston ^ 500+ connections"), Null}

ParseResults ==
    {[link |-> Str(ProfilePrefix \o "alexLevin"), title |-> Str(n \o t), snippet |-> sn] :
        n \in TitleNames, t \in TitleTails, sn \in ParseSnippets}
    \cup {[link |-> Str(ProfilePrefix \o "jane-doe"), title |-> Null, snippet |-> Str("")]}

\* job descriptions: a role, a seniority, skills and a place, each possibly absent
JobRoles == {"Product Manager", "ML Engineer at Acme", "Backend Developer"}

JobSeniorities ==
    {"", "Senior ", "Junior ", "Junior or Senior ", "Sr. ", "Director, ", "Junior Director, "}

JobSkills == {"", "\nPython", "\nPython, AWS, Go"}

JobPlaces == {"", "\nBoston", "\nRemote", "\nRemote or Seattle"}

QueryJobs ==
    {sen \o role \o skills \o place :
        sen \in JobSeniorities, role \in JobRoles, skills \in JobSkills, place \in JobPlaces}

(***************************************************************************)
(* The functions under study, one call each.                               *)
(***************************************************************************)
Idle ==
    /\ job_description_lines = <<>>
    /\ empty_line_count = 0
    /\ job_description = ""
    /\ queries = <<>>
    /\ qi = 0
    /\ issued = <<>>
    /\ response = NoResponse
    /\ search_errors = {}
    /\ candidates = <<>>
    /\ seen_urls = {}
    /\ scored_candidates = <<>>
    /\ num_messages = <<>>
    /\ top_candidates = <<>>
    /\ messages = <<>>
    /\ db = <<>>
    /\ gemini_client = FALSE

InitName ==
    /\ pc = "name_call"
    /\ arg \in NameUrls
    /\ ret = ""
    /\ Idle

ExtractName ==
    /\ pc = "name_call"
    /\ ret' = _extract_name_from_url(arg)
    /\ pc' = "name_ret"
    /\ UNCHANGED <<pipelineVars, arg>>

SpecName == InitName /\ [][ExtractName]_vars

InitParse ==
    /\ pc = "parse_call"
    /\ arg \in ParseResults
    /\ ret = <<>>
    /\ Idle

ParseResult ==
    /\ pc = "parse_call"
    /\ ret' = _parse_search_result(arg)
    /\ pc' = "parse_ret"
    /\ UNCHANGED <<pipelineVars, arg>>

SpecParse == InitParse /\ [][ParseResult]_vars

InitQuery ==
    /\ pc = "query_call"
    /\ arg \in QueryJobs
    /\ ret = <<>>
    /\ Idle

\* lines 264-265
BuildQueries ==
    /\ pc = "query_call"
    /\ LET search_terms == _extract_search_terms(arg) IN
       ret' = [terms |-> search_terms, queries |-> _build_search_queries(search_terms)]
    /\ pc' = "query_ret"
    /\ UNCHANGED <<pipelineVars, arg>>

SpecQuery == InitQuery /\ [][BuildQueries]_vars

(***************************************************************************)
(* score_candidates on its own (SpecScore)                                 *)
(***************************************************************************)
MaxCandidates == 3

\* candidates as search_linkedin returns them: one per profile URL
Profile(slug, headline, summary, company, location) ==
    [name |-> Capitalize(slug),
     linkedin_url |-> ProfilePrefix \o slug,
     headline |-> headline,
     location |-> location,
     company |-> company,
     summary |-> summary]

RankProfiles ==
    {Profile("ann", "Senior Software Engineer at Google, MIT graduate",
             "python, aws and ml, 3 years", "Google", "Boston, MA"),
     Profile("bob", "Senior Software Engineer at Google, MIT graduate",
             "python, aws and ml, 3 years", "Google", "Boston, MA"),
     Profile("cy", "ML intern", "6 months contract", "", "Remote"),
     Profile("dee", "Engineer II, University of Texas, MBA", "Java 2021 2022",
             "Acme Software", "Cambridge"),
     Profile("eve", "ML intern", "6 months contract", "", "Remote"),
     Profile("flo", "", "", "", "")}

\* two profiles whose weighted sums can be the same
TieProfiles ==
    {Profile("gil", "", "python and aws, contract", "", ""),
     Profile("hal", "Engineer II", "python", "", "")}

ProfileHeadlines ==
    {"", "Senior Software Engineer at Google, MIT graduate", "ML intern",
     "Engineer II, University of Texas, MBA", "PhD candidate, college",
     "Associate, B.S., institute of technology"}

ProfileSummaries ==
    {"", "python, aws and ml, 3 years", "6 months contract", "Go 1 year",
     "2020 2021 2022 2023", "Java 2021 2022", "1-2 years at Acme"}

ProfileCompanies == {"", "Google", "Acme Software"}

ProfileLocations == {"", "Boston, MA", "Remote", "Cambridge"}

SingleProfiles ==
    {Profile("zed", h, sm, c, l) :
        h \in ProfileHeadlines, sm \in ProfileSummaries,
        c \in ProfileCompanies, l \in ProfileLocations}

ScoreJobs ==
    {"Senior ML Engineer at Acme, Boston\nPython, AWS",
     "Product Manager",
     "Backend Developer, Remote\nGo, Java, SQL, Docker, Redis"}

\* the sequences of at most n different elements of S, the empty one excluded
RECURSIVE DistinctSeqs(_, _)
DistinctSeqs(S, n) ==
    IF n = 0 THEN {}
    ELSE LET shorter == DistinctSeqs(S, n - 1) IN
         {<<x>> : x \in S} \cup shorter \cup
         UNION {{Append(sq, x) : x \in {y \in S : \A i \in 1..Len(sq) : sq[i] # y}} :
                   sq \in shorter}

InitScore ==
    /\ pc = "score"
    /\ job_description \in ScoreJobs
    /\ candidates \in DistinctSeqs(RankProfiles, MaxCandidates)
                      \cup DistinctSeqs(TieProfiles, MaxCandidates)
                      \cup {<<p>> : p \in SingleProfiles}
    /\ job_description_lines = <<>>
    /\ empty_line_count = 0
    /\ queries = <<>>
    /\ qi = 0
    /\ issued = <<>>
    /\ response = NoResponse
    /\ search_errors = {}
    /\ seen_urls = {}
    /\ scored_candidates = <<>>
    /\ num_messages = <<>>
    /\ top_candidates = <<>>
    /\ messages = <<>>
    /\ db = <<>>
    /\ gemini_client = FALSE
    /\ arg = ""
    /\ ret = ""

\* run_pipeline line 160
ScoreCandidates ==
    /\ pc = "score"
    /\ scored_candidates' = score_candidates(candidates, job_description)
    /\ pc' = "prompt"
    /\ UNCHANGED <<job_description_lines, empty_line_count, job_description, queries,
                   qi, issued, response, search_errors, candidates, seen_urls,
                   num_messages, top_candidates, messages, db, gemini_client, arg, ret>>

SpecScore == InitScore /\ [][ScoreCandidates]_vars

\* C1: every sub-score and every fit score that score_candidates produces lies
\* in [0,10] (0..100 tenths).
C1_ScoresInRange ==
    pc = "prompt" =>
        /\ Len(scored_candidates) = Len(candidates)
        /\ \A i \in 1..Len(scored_candidates) :
              /\ scored_candidates[i].score >= 0 /\ scored_candidates[i].score <= 100
              /\ \A k \in DOMAIN scored_candidates[i].breakdown :
                    /\ scored_candidates[i].breakdown[k] >= 0
                    /\ scored_candidates[i].breakdown[k] <= 100

\* a candidate scored at the top of every scale
C1_Reached ==
    /\ pc = "prompt"
    /\ \E i \in 1..Len(scored_candidates) :
          /\ scored_candidates[i].breakdown =
                 [education |-> 95, trajectory |-> 85, company |-> 95,
                  experience |-> 95, location |-> 100, tenure |-> 90]
          /\ scored_candidates[i].score = 93

\* the position of the candidate with this URL in the input list
PosOf(url) == CHOOSE k \in 1..Len(candidates) : candidates[k].linkedin_url = url

\* C2: the result is a permutation of the input candidates, non-increasing by fit
\* score, and candidates with equal fit score keep their input order.
C2_StableDescendingSort ==
    pc = "prompt" =>
        LET n == Len(scored_candidates) IN
        /\ n = Len(candidates)
        /\ {scored_candidates[i].linkedin_url : i \in 1..n}
               = {candidates[i].linkedin_url : i \in 1..n}
        /\ \A i \in 1..n :
              scored_candidates[i].name = candidates[PosOf(scored_candidates[i].linkedin_url)].name
        /\ \A i, j \in 1..n :
              i < j =>
                 /\ scored_candidates[i].score >= scored_candidates[j].score
                 /\ scored_candidates[i].score = scored_candidates[j].score
                        => PosOf(scored_candidates[i].linkedin_url)
                               < PosOf(scored_candidates[j].linkedin_url)

\* two candidates tie behind one that was moved ahead of them
C2_Reached ==
    /\ pc = "prompt"
    /\ Len(scored_candidates) = 3
    /\ scored_candidates[2].score = scored_candidates[3].score
    /\ scored_candidates[1].score > scored_candidates[2].score
    /\ scored_candidates[1].linkedin_url = candidates[3].linkedin_url

(***************************************************************************)
(* run_pipeline (Spec): input, search, scoring, outreach, persistence      *)
(***************************************************************************)
MaxInputLines == 2

MaxResults == 2

\* line 272: queries[:3]
QueryCap == 3

\* what the user may type as one line of the job description
InputLines == {"", "Senior ML Engineer at Acme, Boston", "Product Manager"}

UrlJane == ProfilePrefix \o "jane-doe"

UrlBare == ProfilePrefix

\* the results the provider may deliver, in any order and any number of times
ResultPool ==
    {[link |-> Str(UrlJane), title |-> Str(ExampleTitle),
      snippet |-> Str("Engineer at Google. Location: Boston ^ 500+ connections")],
     [link |-> Str(UrlJane), title |-> Str("Jane D. | LinkedIn"), snippet |-> Str("")],
     [link |-> Str(UrlBare), title |-> Null, snippet |-> Str("")],
     [link |-> Str(UrlBare), title |-> Str("View profile"), snippet |-> Str("ML intern at Acme")],
     [link |-> Str("https://example.com/jobs/1"), title |-> Str("Jobs - Acme"), snippet |-> Str("")],
     [link |-> Null, title |-> Str(""), snippet |-> Str("")]}

\* what the user may type at the count prompt
PromptEntries == {"abc", "0", "1", " 2 ", "3"}

\* what generate_content may do at one call
LLMOutcomes ==
    {LLMRaises, LLMReturns(Null),
     LLMReturns(Str(" Hi [Candidate Name], we have a role for you. [Your Name] "))}

\* line 141: job_<time>; the row left by an earlier run carries an earlier id
JobId == "job_1"

PriorRow ==
    [job_id |-> "job_0", name |-> "Jane Doe", linkedin_url |-> UrlJane, fit_score |-> 55,
     score_breakdown |-> [education |-> 55, trajectory |-> 60, company |-> 55,
                          experience |-> 40, location |-> 50, tenure |-> 65],
     outreach_message |-> "Hi Jane Doe,"]

inputVars == <<job_description_lines, empty_line_count>>

searchVars == <<queries, qi, issued, response, search_errors, candidates, seen_urls>>

laterVars == <<scored_candidates, num_messages, top_candidates, messages, db>>

fixedVars == <<gemini_client, arg, ret>>

\* the table holds a row of an earlier run of the same agent
Init ==
    /\ pc = "input"
    /\ job_description_lines = <<>>
    /\ empty_line_count = 0
    /\ job_description = ""
    /\ queries = <<>>
    /\ qi = 0
    /\ issued = <<>>
    /\ response = NoResponse
    /\ search_errors = {}
    /\ candidates = <<>>
    /\ seen_urls = {}
    /\ scored_candidates = <<>>
    /\ num_messages = <<>>
    /\ top_candidates = <<>>
    /\ messages = <<>>
    /\ db = <<PriorRow>>
    /\ gemini_client \in BOOLEAN
    /\ arg = ""
    /\ ret = ""

\* lines 126-148 and 264-268: the loop has ended with these lines
FinishInput(lines) ==
    /\ job_description_lines' = lines
    /\ job_description' = Strip(Join(lines, "\n"))
    /\ IF job_description' = ""
       THEN /\ pc' = "halted_no_job"
            /\ queries' = queries
       ELSE /\ pc' = "search"
            /\ queries' = _build_search_queries(_extract_search_terms(job_description'))
    /\ UNCHANGED <<qi, issued, response, search_errors, candidates, seen_urls,
                   laterVars, fixedVars>>

\* lines 112-122: one line read
ReadLine(line) ==
    /\ pc = "input"
    /\ Len(job_description_lines) < MaxInputLines
    /\ IF Strip(line) = ""
       THEN IF empty_line_count + 1 >= 2
            THEN /\ empty_line_count' = empty_line_count + 1
                 /\ FinishInput(job_description_lines)
            ELSE /\ empty_line_count' = empty_line_count + 1
                 /\ job_description_lines' = Append(job_description_lines, line)
                 /\ UNCHANGED <<pc, job_description, searchVars, laterVars, fixedVars>>
       ELSE /\ empty_line_count' = 0
            /\ job_description_lines' = Append(job_description_lines, line)
            /\ UNCHANGED <<pc, job_description, searchVars, laterVars, fixedVars>>

\* lines 123-124: input() raises EOFError
ReadEOF ==
    /\ pc = "input"
    /\ UNCHANGED empty_line_count
    /\ FinishInput(job_description_lines)

\* line 272: the queries the loop runs over
Capped(qs) == SubSeq(qs, 1, IF Len(qs) < QueryCap THEN Len(qs) ELSE QueryCap)

\* OnSearchError with the except clause around the loop: the loop is left
OnSearchError_Abort(i, n) == n

\* lines 296-297: the except clause is inside the loop, which goes on with the
\* next query; i iterations were done before this one, of n
OnSearchError(i, n) == i + 1

\* lines 284-285: the provider is asked the next query and raises
IssueQueryRaises ==
    /\ pc = "search"
    /\ qi < Len(Capped(queries))
    /\ ~response.open
    /\ issued' = Append(issued, Capped(queries)[qi + 1])
    /\ search_errors' = search_errors \cup {qi + 1}
    /\ qi' = OnSearchError(qi, Len(Capped(queries)))
    /\ UNCHANGED <<pc, inputVars, job_description, queries, response, candidates,
                   seen_urls, laterVars, fixedVars>>

\* lines 284-287: the provider answers, with organic results or without
IssueQueryAnswered ==
    /\ pc = "search"
    /\ qi < Len(Capped(queries))
    /\ ~response.open
    /\ issued' = Append(issued, Capped(queries)[qi + 1])
    /\ \E organic \in BOOLEAN :
          IF organic
          THEN /\ response' = [open |-> TRUE, n |-> 0]
               /\ qi' = qi
          ELSE /\ response' = NoResponse
               /\ qi' = qi + 1
    /\ UNCHANGED <<pc, inputVars, job_description, queries, search_errors, candidates,
                   seen_urls, laterVars, fixedVars>>

\* HandleResult without the test of seen_urls at line 290
HandleResult_NoSeenCheck(cands, seen, result) ==
    LET link == Val(result.link) IN
    IF Contains(ProfileMarker, link)
    THEN LET candidate == _parse_search_result(result) IN
         [candidates |-> IF candidate # <<>> THEN Append(cands, candidate[1]) ELSE cands,
          seen_urls |-> seen \cup {link}]
    ELSE [candidates |-> cands, seen_urls |-> seen]

\* lines 290-294, link a string: [candidates, seen_urls] after this result
HandleResult(cands, seen, result) ==
    LET link == Val(result.link) IN
    IF Contains(ProfileMarker, link) /\ link \notin seen
    THEN LET candidate == _parse_search_result(result) IN
         [candidates |-> IF candidate # <<>> THEN Append(cands, candidate[1]) ELSE cands,
          seen_urls |-> seen \cup {link}]
    ELSE [candidates |-> cands, seen_urls |-> seen]

\* lines 288-294: the next result of the response in hand; a link that is not a
\* string raises at line 290 and ends this query (lines 296-297)
NextResult(result) ==
    /\ pc = "search"
    /\ response.open
    /\ response.n < MaxResults
    /\ IF IsStr(result.link)
       THEN LET after == HandleResult(candidates, seen_urls, result) IN
            /\ candidates' = after.candidates
            /\ seen_urls' = after.seen_urls
            /\ response' = [open |-> TRUE, n |-> response.n + 1]
            /\ UNCHANGED <<qi, search_errors>>
       ELSE /\ response' = NoResponse
            /\ search_errors' = search_errors \cup {qi + 1}
            /\ qi' = OnSearchError(qi, Len(Capped(queries)))
            /\ UNCHANGED <<candidates, seen_urls>>
    /\ UNCHANGED <<pc, inputVars, job_description, queries, issued, laterVars, fixedVars>>

\* line 288: the response has no more results
EndResults ==
    /\ pc = "search"
    /\ response.open
    /\ response' = NoResponse
    /\ qi' = qi + 1
    /\ UNCHANGED <<pc, inputVars, job_description, queries, issued, search_errors,
                   candidates, seen_urls, laterVars, fixedVars>>

\* lines 299-300 and 148-153
SearchReturn ==
    /\ pc = "search"
    /\ qi >= Len(Capped(queries))
    /\ ~response.open
    /\ pc' = IF candidates = <<>> THEN "halted_no_candidates" ELSE "score"
    /\ UNCHANGED <<inputVars, job_description, searchVars, laterVars, fixedVars>>

\* int(s): <<>> for ValueError, else <<n>>; s is stripped, a sign may lead
RECURSIVE DigitsValue(_, _)
DigitsValue(s, acc) ==
    IF s = "" THEN acc
    ELSE DigitsValue(From(s, 2),
                     acc * 10 + (CHOOSE d \in 0..9 : CharAt("0123456789", d + 1) = CharAt(s, 1)))

ParseInt(s) ==
    LET t == Strip(s)
        signed == t # "" /\ CharAt(t, 1) \in {"+", "-"}
        digits == IF signed THEN From(t, 2) ELSE t
    IN IF ~IsDigit(digits) THEN <<>>
       ELSE <<(IF signed /\ CharAt(t, 1) = "-" THEN -1 ELSE 1) * DigitsValue(digits, 0)>>

\* PromptNum without the test of the range at line 193
PromptNum_NoRangeCheck(entry) ==
    /\ pc = "prompt"
    /\ LET parsed == ParseInt(entry) IN
       /\ num_messages' = IF parsed = <<>> THEN <<"str", entry>> ELSE <<"int", parsed[1]>>
       /\ IF parsed # <<>>
          THEN /\ top_candidates' =
                     SubSeq(scored_candidates, 1,
                            IF parsed[1] < Len(scored_candidates) THEN parsed[1]
                            ELSE Len(scored_candidates))
               /\ pc' = "outreach"
          ELSE UNCHANGED <<top_candidates, pc>>
    /\ UNCHANGED <<inputVars, job_description, searchVars, scored_candidates, messages,
                   db, fixedVars>>

\* lines 189-200: one entry at the prompt
PromptNum(entry) ==
    /\ pc = "prompt"
    /\ LET parsed == ParseInt(entry) IN
       /\ num_messages' = IF parsed = <<>> THEN <<"str", entry>> ELSE <<"int", parsed[1]>>
       /\ IF parsed # <<>> /\ 1 <= parsed[1] /\ parsed[1] <= Len(scored_candidates)
          THEN /\ top_candidates' = SubSeq(scored_candidates, 1, parsed[1])
               /\ pc' = "outreach"
          ELSE UNCHANGED <<top_candidates, pc>>
    /\ UNCHANGED <<inputVars, job_description, searchVars, scored_candidates, messages,
                   db, fixedVars>>

\* lines 191 and 230: input() raises EOFError, which only main() catches (886-888)
PromptEOF ==
    /\ pc \in {"prompt", "saved"}
    /\ pc' = "crashed"
    /\ UNCHANGED <<inputVars, job_description, searchVars, laterVars, fixedVars>>

\* line 201; llms is what the generator does at each call
GenerateOutreach(llms) ==
    /\ pc = "outreach"
    /\ messages' = generate_outreach(top_candidates, job_description, gemini_client, llms)
    /\ pc' = "save"
    /\ UNCHANGED <<inputVars, job_description, searchVars, scored_candidates, num_messages,
                   top_candidates, db, fixedVars>>

\* the generator is called only when the client is configured
LLMChoices ==
    IF gemini_client THEN [1..Len(top_candidates) -> LLMOutcomes]
    ELSE {[i \in 1..Len(top_candidates) |-> LLMRaises]}

\* line 216
SaveResults ==
    /\ pc = "save"
    /\ db' = save_results(db, JobId, top_candidates, messages)
    /\ pc' = "saved"
    /\ UNCHANGED <<inputVars, job_description, searchVars, scored_candidates, num_messages,
                   top_candidates, messages, fixedVars>>

\* lines 230-232: the answer to the JSON prompt changes nothing that is kept
ShowJson ==
    /\ pc = "saved"
    /\ pc' = "done"
    /\ UNCHANGED <<inputVars, job_description, searchVars, laterVars, fixedVars>>

Next ==
    \/ \E line \in InputLines : ReadLine(line)
    \/ ReadEOF
    \/ IssueQueryRaises
    \/ IssueQueryAnswered
    \/ \E result \in ResultPool : NextResult(result)
    \/ EndResults
    \/ SearchReturn
    \/ ScoreCandidates
    \/ \E entry \in PromptEntries : PromptNum(entry)
    \/ PromptEOF
    \/ \E llms \in LLMChoices : GenerateOutreach(llms)
    \/ SaveResults
    \/ ShowJson

Spec == Init /\ [][Next]_vars

(***************************************************************************)
(* search_linkedin: one candidate per profile URL (Spec)                   *)
(***************************************************************************)
IsPrefix(short, long) ==
    Len(short) <= Len(long) /\ SubSeq(long, 1, Len(short)) = short

\* the candidate list holds each URL once, every URL of it is a profile URL
\* that is in the seen set
DistinctProfileUrls ==
    /\ \A i, j \in 1..Len(candidates) :
          candidates[i].linkedin_url = candidates[j].linkedin_url => i = j
    /\ \A i \in 1..Len(candidates) :
          /\ Contains(ProfileMarker, candidates[i].linkedin_url)
          /\ candidates[i].linkedin_url \in seen_urls

\* what handling one result with a string link does to the list and the set
ResultHandledOnce(result) ==
    LET link == Val(result.link) IN
    /\ (link \in seen_urls \/ ~Contains(ProfileMarker, link)) => candidates' = candidates
    /\ ~Contains(ProfileMarker, link) => seen_urls' = seen_urls
    /\ Contains(ProfileMarker, link) => seen_urls' = seen_urls \cup {link}
    /\ \/ candidates' = candidates
       \/ /\ Len(candidates') = Len(candidates) + 1
          /\ IsPrefix(candidates, candidates')
          /\ Last(candidates').linkedin_url = link

\* C3: in one pass of search_linkedin the candidate list never holds two
\* candidates with the same profile URL; a result whose URL was already seen in
\* the pass, or is not a profile URL, adds no candidate; and a profile URL is in
\* the seen set after its result whatever the parser returned for it.
C3_OneCandidatePerProfileUrl ==
    /\ []DistinctProfileUrls
    /\ [][\A result \in ResultPool :
             (NextResult(result) /\ IsStr(result.link)) => ResultHandledOnce(result)]_vars

\* two results of the first response were handled and one candidate was kept:
\* the other result was a repeat of its URL or no profile URL
C3_Reached ==
    /\ pc = "search"
    /\ qi = 0
    /\ response = [open |-> TRUE, n |-> 2]
    /\ Len(candidates) = 1
    /\ seen_urls = {UrlJane}

(***************************************************************************)
(* generate_outreach: one message per candidate (Spec)                     *)
(***************************************************************************)
LLMFails(llm) == llm = LLMRaises \/ ~IsStr(llm[2])

\* what one call of generate_outreach leaves, the generator doing llms
OneMessageEach(llms) ==
    /\ pc' = "save"
    /\ Len(messages') = Len(top_candidates)
    /\ \A i \in 1..Len(top_candidates) :
          /\ messages'[i].candidate = top_candidates[i].name
          /\ (~gemini_client \/ LLMFails(llms[i])) =>
                messages'[i].message =
                    _generate_template_message(top_candidates[i], job_description)

\* C4: generate_outreach returns one message per candidate passed in, in the
\* same order and with that candidate's name, the generator being absent,
\* succeeding or failing; a failing generator call is not raised to the caller
\* (the pipeline goes on to save) and that candidate's message is the template
\* message.
C4_OneMessagePerCandidate ==
    /\ [](pc \in {"save", "saved", "done"} =>
            /\ Len(messages) = Len(top_candidates)
            /\ \A i \in 1..Len(messages) : messages[i].candidate = top_candidates[i].name)
    /\ [][\A llms \in LLMChoices : GenerateOutreach(llms) => OneMessageEach(llms)]_vars

\* with a generator configured, the first of two candidates has the template
\* message (its call failed) and the second one a generated message
C4_Reached ==
    /\ pc = "save"
    /\ gemini_client
    /\ Len(messages) = 2
    /\ messages[1].message = _generate_template_message(top_candidates[1], job_description)
    /\ messages[2].message # _generate_template_message(top_candidates[2], job_description)

(***************************************************************************)
(* search_linkedin: a failing query does not end the pass (Spec)           *)
(***************************************************************************)
\* the queries asked so far are the first ones of the loop, in order, each once
IssuedInOrder ==
    /\ IsPrefix(issued, Capped(queries))
    /\ pc = "search" => Len(issued) = qi + (IF response.open THEN 1 ELSE 0)
    /\ pc \notin {"input", "search", "halted_no_job"} => issued = Capped(queries)
    /\ Len(Capped(queries)) = (IF Len(queries) < 3 THEN Len(queries) ELSE 3)

\* one step of the pass: the list only grows, a step that logs an error leaves
\* it as it is, and the pass ends by returning
FailureIsolated ==
    pc = "search" =>
        /\ IsPrefix(candidates, candidates')
        /\ search_errors' # search_errors => candidates' = candidates
        /\ pc' \in {"search", "score", "halted_no_candidates"}
        /\ pc' # "search" => candidates' = candidates

\* C5: in search_linkedin each of the first min(3, number of built queries)
\* queries is issued once, in builder order, whether or not earlier ones raised;
\* a failing call adds no candidate, the candidates gathered before it are in
\* the returned list, and no error leaves search_linkedin.
C5_QueryFailureIsolated ==
    /\ []IssuedInOrder
    /\ [][FailureIsolated]_vars

\* the first and the last of three queries failed, all three were issued, and
\* the pass returned the candidates of the second one
C5_Reached ==
    /\ pc = "score"
    /\ search_errors = {1, 3}
    /\ Len(issued) = 3
    /\ candidates # <<>>

(***************************************************************************)
(* The template message after search and scoring (Spec)                    *)
(***************************************************************************)
\* the candidate as the parser returned it
ParsedCandidate(url) ==
    candidates[CHOOSE k \in 1..Len(candidates) : candidates[k].linkedin_url = url]

\* C6: with no generator configured, the message of every top candidate of the
\* pipeline begins with "Hi <name>," for that candidate's name and contains the
\* headline and the company the parser gave that candidate.
C6_TemplateCarriesParsedFields ==
    (pc = "save" /\ ~gemini_client) =>
        \A i \in 1..Len(top_candidates) :
            LET parsed == ParsedCandidate(top_candidates[i].linkedin_url) IN
            /\ StartsWith(messages[i].message, "Hi " \o parsed.name \o ",")
            /\ Contains(parsed.headline, messages[i].message)
            /\ Contains(parsed.company, messages[i].message)

\* the messages were written from the template for a candidate whose parsed
\* headline and company are not empty
C6_Reached ==
    /\ pc = "save"
    /\ ~gemini_client
    /\ \E i \in 1..Len(top_candidates) :
          LET parsed == ParsedCandidate(top_candidates[i].linkedin_url) IN
          parsed.headline = "Senior Engineer" /\ parsed.company = "Google"

(***************************************************************************)
(* Slug name inference (SpecName)                                          *)
(***************************************************************************)
\* the slug of a profile URL built from ProfilePrefix
SlugOf(url) == From(url, Len(ProfilePrefix) + 1)

IsAlphaStr(s) == s # "" /\ \A i \in 1..Len(s) : IsAlpha(CharAt(s, i))

HasCamelBoundary(s) ==
    \E i \in 2..Len(s) : CharAt(s, i) \in UpperChars /\ CharAt(s, i - 1) \in LowerChars

\* C7 (as claimed): slug "john-smith-42" gives exactly "John Smith", and every slug
\* of two alphabetic parts and a numeric suffix, hyphen-joined, gives the two
\* capitalized parts joined by one space and nothing else.
C7_TwoPartsNumericSuffix ==
    (pc = "name_ret" /\ StartsWith(arg, ProfilePrefix)) =>
        LET parts == Split(SlugOf(arg), "-") IN
        /\ (SlugOf(arg) = "john-smith-42" => ret = "John Smith")
        /\ (Len(parts) = 3 /\ IsAlphaStr(parts[1]) /\ IsAlphaStr(parts[2]) /\ IsDigit(parts[3]))
               => ret = Capitalize(parts[1]) \o " " \o Capitalize(parts[2])

\* the call on "john-smith-42" has returned, with a space after the second part
C7_Reached ==
    /\ pc = "name_ret"
    /\ arg = ProfilePrefix \o "john-smith-42"
    /\ ret = "John Smith "

\* C8 (as claimed): "alexlevin" gives "Alexlevin", "alexLevin" gives "Alex Levin",
\* and every separator-free alphabetic slug with a lower-to-upper boundary is split
\* at the boundary with a space and title-cased.
C8_CamelCaseSplit ==
    (pc = "name_ret" /\ StartsWith(arg, ProfilePrefix)) =>
        LET slug == SlugOf(arg) IN
        /\ (slug = "alexlevin" => ret = "Alexlevin")
        /\ (slug = "alexLevin" => ret = "Alex Levin")
        /\ (IsAlphaStr(slug) /\ HasCamelBoundary(slug)) => ret = Title(CamelSplit(slug, 1))

\* the call on "alexLevin" has returned one word
C8_Reached ==
    /\ pc = "name_ret"
    /\ arg = ProfilePrefix \o "alexLevin"
    /\ ret = "Alexlevin"

(***************************************************************************)
(* Title-based name inference (SpecParse)                                  *)
(***************************************************************************)
\* the text of title before the first occurrence of sep
TextBefore(title, sep) == SubSeq(title, 1, Find(sep, title) - 1)

\* the parser was given strings and the title has " - " and the brand marker
DashBrandTitle ==
    /\ pc = "parse_ret"
    /\ IsStr(arg.title) /\ IsStr(arg.snippet)
    /\ Contains(" - ", Val(arg.title)) /\ Contains("LinkedIn", Val(arg.title))

\* C9 (as claimed): when the text before the first " - " is neither empty nor a
\* placeholder, the name is that text.
C9_NameIsTextBeforeDash ==
    DashBrandTitle =>
        LET before == TextBefore(Val(arg.title), " - ") IN
        before \notin Placeholders => (ret # <<>> /\ ret[1].name = before)

\* C9 (amended): the name is the text before the first " - " with the whitespace
\* around it removed, when that trimmed text is neither empty nor a placeholder;
\* the example title gives name "Jane Doe" and headline "Senior Engineer".
C9_NameIsTrimmedTextBeforeDash ==
    DashBrandTitle =>
        LET before == Strip(TextBefore(Val(arg.title), " - ")) IN
        /\ before \notin Placeholders => (ret # <<>> /\ ret[1].name = before)
        /\ Val(arg.title) = ExampleTitle =>
               (ret # <<>> /\ ret[1].name = "Jane Doe" /\ ret[1].headline = "Senior Engineer")

C9_Reached ==
    /\ DashBrandTitle
    /\ Val(arg.title) = ExampleTitle
    /\ ret[1].name = "Jane Doe"
    /\ ret[1].headline = "Senior Engineer"

(***************************************************************************)
(* QueryBuilder (SpecQuery)                                                *)
(***************************************************************************)
B2N(b) == IF b THEN 1 ELSE 0

\* the query names the quoted title and the quoted location
IsLocationQuery(query, terms) ==
    Contains(Quoted(terms.title) \o " " \o Quoted(terms.location), query)

\* the query names the seniority and the title as one phrase
IsSeniorityQuery(query, terms) ==
    Contains(Quoted(terms.seniority \o " " \o terms.title), query)

\* the query names the quoted title, then the first two skills and no third
IsSkillsQuery(query, terms) ==
    /\ Contains(Quoted(terms.title) \o " " \o Quoted(terms.skills[1]), query)
    /\ Len(terms.skills) >= 2 => Contains(" " \o Quoted(terms.skills[2]), query)
    /\ Len(terms.skills) >= 3 => ~Contains(Quoted(terms.skills[3]), query)

IsFallbackQuery(query, terms) == query = "site:linkedin.com/in " \o Quoted(terms.title)

\* C10: the list is non-empty, has at most 4 queries, holds title+location,
\* seniority+title, title+skills in that order, each exactly when its term was
\* extracted; the title-only query is there exactly when none of them is; every
\* query is scoped to profile pages.
C10_QueryList ==
    pc = "query_ret" =>
        LET terms == ret.terms
            q == ret.queries
            nLoc == B2N(terms.location # "")
            nSen == B2N(terms.seniority # "")
            nSk == B2N(terms.skills # <<>>)
        IN /\ Len(q) >= 1 /\ Len(q) <= 4
           /\ Len(q) = (IF nLoc + nSen + nSk = 0 THEN 1 ELSE nLoc + nSen + nSk)
           /\ nLoc = 1 => IsLocationQuery(q[1], terms)
           /\ nSen = 1 => IsSeniorityQuery(q[nLoc + 1], terms)
           /\ nSk = 1 => IsSkillsQuery(q[nLoc + nSen + 1], terms)
           /\ (\E i \in 1..Len(q) : IsFallbackQuery(q[i], terms)) <=> (nLoc + nSen + nSk = 0)
           /\ \A i \in 1..Len(q) : StartsWith(q[i], "site:linkedin.com/in ")

\* all three queries were built, from a description with three skills
C10_Reached ==
    /\ pc = "query_ret"
    /\ Len(ret.queries) = 3
    /\ Len(ret.terms.skills) >= 3

(***************************************************************************)
(* The fit score as a rounding of the weighted sum (SpecScore)             *)
(***************************************************************************)
\* the weighted sum of a scored candidate's own sub-scores, in thousandths
ExactFit(scored) == WeightedSum(scored.breakdown, ScoreKeys)

WeightTotal ==
    weights.education + weights.trajectory + weights.company
        + weights.experience + weights.location + weights.tenure

ScoredAs(scored, url) ==
    scored[CHOOSE k \in 1..Len(scored) : scored[k].linkedin_url = url]

\* the same profile: the fields the scorers read are the same
SameProfile(c, d) ==
    /\ c.headline = d.headline
    /\ c.summary = d.summary
    /\ c.company = d.company
    /\ c.location = d.location

\* C12: a profile scored against a job description gets the same breakdown and
\* the same fit score whatever list it is scored in and wherever it stands in
\* the list: scored alone, scored in the list at any position, and scored as
\* another candidate of the same list with the same profile.
C12_ScoringIsRepeatable ==
    pc = "prompt" =>
        \A i \in 1..Len(candidates) :
            LET here == ScoredAs(scored_candidates, candidates[i].linkedin_url)
                alone == score_candidates(<<candidates[i]>>, job_description)[1]
            IN /\ here = alone
               /\ \A j \in 1..Len(candidates) :
                     SameProfile(candidates[i], candidates[j]) =>
                         LET there == ScoredAs(scored_candidates, candidates[j].linkedin_url)
                         IN here.breakdown = there.breakdown /\ here.score = there.score

\* one profile was scored first and last in a list of three, another one
\* between the two
C12_Reached ==
    /\ pc = "prompt"
    /\ Len(candidates) = 3
    /\ SameProfile(candidates[1], candidates[3])
    /\ ~SameProfile(candidates[1], candidates[2])
    /\ candidates[2].summary # ""

(***************************************************************************)
(* The stored rows after a run (Spec)                                      *)
(***************************************************************************)
RowsOf(url) == {k \in 1..Len(db) : db[k].linkedin_url = url}

\* C13: after a completed run the table holds one row, written by this run, for
\* each candidate the run scored, and never two rows with the same profile URL.
C13_OneRowPerScoredCandidate ==
    pc = "done" =>
        /\ \A i \in 1..Len(scored_candidates) :
              /\ Cardinality(RowsOf(scored_candidates[i].linkedin_url)) = 1
              /\ \A k \in RowsOf(scored_candidates[i].linkedin_url) :
                    /\ db[k].job_id = JobId
                    /\ db[k].fit_score = scored_candidates[i].score
        /\ \A k, l \in 1..Len(db) : db[k].linkedin_url = db[l].linkedin_url => k = l

\* a run that scored two candidates and was asked for one message has ended
C13_Reached ==
    /\ pc = "done"
    /\ Len(scored_candidates) = 2
    /\ Len(top_candidates) = 1

\* what does hold: the rows of this run are the top candidates, one row each,
\* and a row of an earlier run with the URL of one of them is gone
C13_OneRowPerTopCandidate ==
    pc = "done" =>
        /\ \A i \in 1..Len(top_candidates) :
              /\ Cardinality(RowsOf(top_candidates[i].linkedin_url)) = 1
              /\ \A k \in RowsOf(top_candidates[i].linkedin_url) :
                    /\ db[k].job_id = JobId
                    /\ db[k].fit_score = top_candidates[i].score
                    /\ db[k].outreach_message = messages[i].message
        /\ \A k, l \in 1..Len(db) : db[k].linkedin_url = db[l].linkedin_url => k = l
        /\ \A k \in 1..Len(db) :
              db[k].job_id = JobId =>
                  \E i \in 1..Len(top_candidates) :
                      top_candidates[i].linkedin_url = db[k].linkedin_url

(***************************************************************************)
(* Input errors of run_pipeline (Spec)                                     *)
(***************************************************************************)
\* the run halted for want of a job description: nothing was searched, scored,
\* written or stored
HaltedBeforeSearch ==
    pc = "halted_no_job" =>
        /\ job_description = ""
        /\ queries = <<>> /\ issued = <<>> /\ candidates = <<>> /\ seen_urls = {}
        /\ scored_candidates = <<>> /\ top_candidates = <<>> /\ messages = <<>>
        /\ db = <<PriorRow>>

\* the entry is a number of messages the prompt accepts
InRange(entry) ==
    /\ ParseInt(entry) # <<>>
    /\ 1 <= ParseInt(entry)[1]
    /\ ParseInt(entry)[1] <= Len(scored_candidates)

\* C14: an empty job description (blank lines only, or end of input at once)
\* halts the run before any search, scoring, message or row, and the run goes
\* past the input only with a job description that is not empty; generation
\* starts only with the first n scored candidates for an entered n with
\* 1 <= n <= number of scored candidates; an entry that is no number or is out
\* of range leaves the run at the prompt with nothing else changed.
C14_InputErrorsNotAccepted ==
    /\ []HaltedBeforeSearch
    /\ [](pc \notin {"input", "halted_no_job"} => job_description # "")
    /\ [][pc = "halted_no_job" => pc' = "halted_no_job"]_vars
    /\ [][(pc # "outreach" /\ pc' = "outreach") =>
             /\ pc = "prompt"
             /\ num_messages'[1] = "int"
             /\ 1 <= num_messages'[2] /\ num_messages'[2] <= Len(scored_candidates)
             /\ top_candidates' = SubSeq(scored_candidates, 1, num_messages'[2])]_vars
    /\ [][\A entry \in PromptEntries :
             (PromptNum(entry) /\ ~InRange(entry)) =>
                 /\ pc' = "prompt"
                 /\ UNCHANGED <<inputVars, job_description, searchVars, scored_candidates,
                                top_candidates, messages, db, fixedVars>>]_vars

\* the prompt is shown again after an entry that is out of range
C14_Reached ==
    /\ pc = "prompt"
    /\ num_messages = <<"int", 0>>
    /\ top_candidates = <<>>

(***************************************************************************)
(* Seniority inference of _extract_search_terms (SpecQuery)                *)
(***************************************************************************)
\* the seniority the indicator terms give: the five senior indicators named,
\* with the abbreviation "sr." counted among them, before the junior ones
SeniorityByIndicators(text_lower) ==
    IF AnyIn({"senior", "lead", "principal", "staff", "director", "sr."}, text_lower)
    THEN "senior"
    ELSE IF AnyIn({"junior", "entry", "new grad"}, text_lower) THEN "junior"
    ELSE ""

\* C15: the seniority _extract_search_terms infers is senior when the
\* lower-cased description contains "senior", "lead", "principal", "staff" or
\* "director", else junior when it contains a junior indicator, else none; with
\* a senior and a junior indicator it is senior.
C15_SeniorityInference ==
    pc = "query_ret" => ret.terms.seniority = SeniorityByIndicators(Lower(arg))

\* the terms of a description that names a director, and no other senior
\* indicator, were extracted
C15_Reached ==
    /\ pc = "query_ret"
    /\ Contains("director", Lower(arg))
    /\ ~AnyIn({"senior", "lead", "principal", "staff", "sr."}, Lower(arg))

(***************************************************************************)
(* The tenure sub-score by duration phrase (SpecScore)                     *)
(***************************************************************************)
\* the text the tenure scorer reads
TenureText(candidate) == Lower(candidate.summary) \o " " \o Lower(candidate.headline)

\* "2 years" stands in the text as a phrase of its own: not only as the end of
\* "1-2 years"
TwoYearsPhrase(text) ==
    \E k \in Occurrences("2 years", text) : (k - 2) \notin Occurrences("1-2 years", text)

\* the score by the phrases of the text; the spelled-out forms and "3 months"
\* are counted with the phrases named
TenureByPhrases(text) ==
    LET years == Cardinality({y \in RecentYears : Contains(y, text)}) IN
    IF TwoYearsPhrase(text) \/ AnyIn({"3 years", "two years", "three years"}, text) THEN 90
    ELSE IF AnyIn({"1 year", "one year", "1-2 years"}, text) THEN 70
    ELSE IF AnyIn({"6 months", "3 months", "contract", "freelance"}, text) THEN 35
    ELSE IF years >= 4 THEN 40
    ELSE IF years >= 2 THEN 75
    ELSE 65

\* C16: the tenure sub-score is 9.0 for a text with the duration phrase
\* "2 years" or "3 years"; 7.0 for a text whose only duration phrase is "1 year"
\* or "1-2 years"; else 3.5 with a job-hopping indicator; else by the number of
\* the years 2020..2025 it mentions: 4.0 for four or more, 7.5 for two or three,
\* 6.5 for fewer.
C16_TenureByDurationPhrase ==
    pc = "prompt" =>
        \A i \in 1..Len(candidates) :
            ScoredAs(scored_candidates, candidates[i].linkedin_url).breakdown.tenure
                = TenureByPhrases(TenureText(candidates[i]))

\* a candidate whose only duration phrase is "1-2 years" was scored
C16_Reached ==
    /\ pc = "prompt"
    /\ Len(candidates) = 1
    /\ Contains("1-2 years", TenureText(candidates[1]))
    /\ ~TwoYearsPhrase(TenureText(candidates[1]))
    /\ ~AnyIn({"3 years", "two years", "three years"}, TenureText(candidates[1]))

(***************************************************************************)
(* The location sub-score against the job's extracted location (SpecScore) *)
(***************************************************************************)
\* the tiers, the job side being the location _extract_search_terms derives
LocationByTerms(candidate, jd) ==
    LET candidate_location == Lower(candidate.location)
        job_location == _extract_search_terms(jd).location
    IN IF job_location # "" /\ Contains(job_location, candidate_location) THEN 100
       ELSE IF \E cities \in MetroAreas :
                   AnyIn(cities, job_location) /\ AnyIn(cities, candidate_location) THEN 80
       ELSE IF Contains("remote", candidate_location) \/ Contains("remote", job_location)
       THEN 60
       ELSE 50

\* C17: the location sub-score score_candidates gives is 10.0 when the job's
\* extracted location is not empty and is in the candidate location, else 8.0
\* when both contain a city of one metro area, else 6.0 when either contains
\* "remote", else 5.0, the job's location being the one _extract_search_terms
\* derives, whose table has "remote".
C17_LocationScore ==
    pc = "prompt" =>
        \A i \in 1..Len(candidates) :
            ScoredAs(scored_candidates, candidates[i].linkedin_url).breakdown.location
                = LocationByTerms(candidates[i], job_description)

\* a candidate who names a city was scored for a job whose only place is remote
C17_Reached ==
    /\ pc = "prompt"
    /\ _extract_search_terms(job_description).location = "remote"
    /\ \E i \in 1..Len(candidates) :
          /\ candidates[i].location # ""
          /\ ~Contains("remote", Lower(candidates[i].location))

(***************************************************************************)
(* The experience sub-score against the job's extracted skills (SpecScore) *)
(***************************************************************************)
\* the tier of m / max(1, |S|), S being the skills _extract_search_terms derives
ExperienceByTerms(candidate, jd) ==
    LET text == Lower(candidate.headline \o " " \o candidate.summary)
        S == _extract_search_terms(jd).skills
        m == Len(Matches(S, text))
        d == IF Len(S) > 1 THEN Len(S) ELSE 1
    IN IF 10 * m >= 8 * d THEN 95
       ELSE IF 10 * m >= 5 * d THEN 75
       ELSE IF 10 * m >= 2 * d THEN 55
       ELSE 40

\* C18: the experience sub-score is the tier of m / max(1, |S|), where S is the
\* skill set _extract_search_terms derives from the job description and m the
\* number of skills of S in the candidate's lower-cased headline and summary:
\* 9.5 from 0.8, 7.5 from 0.5, 5.5 from 0.2, else 4.0.
C18_ExperienceScore ==
    pc = "prompt" =>
        \A i \in 1..Len(candidates) :
            ScoredAs(scored_candidates, candidates[i].linkedin_url).breakdown.experience
                = ExperienceByTerms(candidates[i], job_description)

\* a candidate with two of its skills was scored for a job from which
\* _extract_search_terms derives five skills, "redis" among them
C18_Reached ==
    /\ pc = "prompt"
    /\ Len(_extract_search_terms(job_description).skills) = 5
    /\ Contains("redis", Lower(job_description))
    /\ \E i \in 1..Len(candidates) :
          Len(Matches(_extract_search_terms(job_description).skills,
                      Lower(candidates[i].headline \o " " \o candidates[i].summary))) = 2

(***************************************************************************)
(* The ordered policy of the name from the title (SpecParse)               *)
(***************************************************************************)
\* rule 1: the title has " - " and the brand marker
TitleRule1(title) == Contains(" - ", title) /\ Contains("LinkedIn", title)

\* rule 2: the title has " | " followed by the brand marker
TitleRule2(title) == Contains(" | LinkedIn", title)

\* the name the title gives: by rule 1, else by rule 2, else the whole title
\* without the brand marker and the separator
NameByPolicy(title) ==
    IF TitleRule1(title) THEN Strip(TextBefore(title, " - "))
    ELSE IF TitleRule2(title) THEN Strip(TextBefore(title, " | LinkedIn"))
    ELSE Strip(Replace(Replace(title, "LinkedIn", ""), "|", ""))

\* C19: for every title the name follows the ordered policy; when neither rule
\* 1 nor rule 2 applies it is the whole title with the brand marker and the
\* separators stripped; the name is inferred from the URL slug only when the
\* name the title gives is empty or one of "Unknown", "View profile",
\* "LinkedIn".
C19_NameByOrderedPolicy ==
    (pc = "parse_ret" /\ IsStr(arg.title) /\ IsStr(arg.snippet)) =>
        LET fromTitle == NameByPolicy(Val(arg.title)) IN
        /\ ret # <<>>
        /\ ret[1].name = IF fromTitle \in {"", "Unknown", "View profile", "LinkedIn"}
                         THEN _extract_name_from_url(Val(arg.link))
                         ELSE fromTitle

\* a title without the brand marker that is a name was parsed
C19_Reached ==
    /\ pc = "parse_ret"
    /\ IsStr(arg.title)
    /\ Val(arg.title) = "Jane Doe"
    /\ ret # <<>>

====
